---- MODULE Spec2Model ----
(***************************************************************************)
(* Identity and session-lifecycle core of the Samudra Sahayak backend      *)
(* (backend/sih/app/routes/auth.py, utils/auth.py, utils/validation.py).   *)
(*                                                                         *)
(* The datastore is a MongoDB collection; every awaited find_one /         *)
(* insert_one / update_one is one atomic step on one document.  A handler  *)
(* is a sequence of such steps; the code a handler runs between two awaits *)
(* (checks, token generation, reading the clock) runs with the step that   *)
(* precedes it.  Requests are served concurrently, so the steps of the     *)
(* handlers in Procs interleave freely.                                    *)
(*                                                                         *)
(* Text is a sequence of one-character strings, time is in whole seconds   *)
(* (the resolution of the exp claim of a JWT).                             *)
(***************************************************************************)
EXTENDS Integers, Sequences, FiniteSets, TLC

(***************************************************************************)
(* Bounds of the model.                                                    *)
(***************************************************************************)
MaxTicks == 1
SessionLogins == 2
SessionRefreshes == 2
SessionLogouts == 1
MaxRegisters == 2
MaxVerifies == 1
MaxLogins == 2
MaxRefreshes == 1
ConflictRegisters == 2
ConflictVerifies == 1
VerifyRegisters == 1
VerifyVerifies == 2
VerifyResends == 1
ResetForgots == 2
ResetResets == 2
ResetLogins == 1
TokenLogins == 1
TokenGuests == 1
TokenChecks == 2
GuardChecks == 1
GuardGuests == 1
GuardRefreshes == 1
MailFailures == 2
MailVerifies == 2
MailLogins == 1
AroundLimit == 1
MaxSuffix == 1
ResetSessionForgots == 1
ResetSessionResets == 1
ResetSessionRefreshes == 2

(***************************************************************************)
(* Program constants.                                                      *)
(***************************************************************************)
JWT_ACCESS_EXPIRES == 15
JWT_REFRESH_EXPIRES == 7
JWT_GUEST_EXPIRES == 10
VERIFICATION_HOURS == 24
RESET_HOURS == 1
REFRESH_SLICE == 5
MIN_PASSWORD_LENGTH == 8
BCRYPT_MAX_BYTES == 72
PHONE_MAX_TAIL == 14
FULL_NAME_MAX == 100

SecondsPerMinute == 60
SecondsPerHour == 60 * SecondsPerMinute
SecondsPerDay == 24 * SecondsPerHour

(***************************************************************************)
(* Text helpers: str.strip, str.lower, re.sub(r'[\s\-\(\)]', '', s).       *)
(***************************************************************************)
Whitespace == {" "}
UpperLetters == {"A", "B", "X"}
LowerLetters == {"a", "b", "c", "o", "x"}
Letters == UpperLetters \cup LowerLetters
Digits == {"0", "1", "2", "3", "4", "5", "6", "7", "8", "9"}
NonZeroDigits == Digits \ {"0"}

LowerChar(c) ==
    CASE c = "A" -> "a"
      [] c = "B" -> "b"
      [] c = "X" -> "x"
      [] OTHER -> c

lower(s) == [i \in 1..Len(s) |-> LowerChar(s[i])]

AllIn(s, lo, hi, class) == \A i \in lo..hi : s[i] \in class

RECURSIVE lstrip(_)
lstrip(s) == IF s # <<>> /\ Head(s) \in Whitespace THEN lstrip(Tail(s)) ELSE s

RECURSIVE rstrip(_)
rstrip(s) ==
    IF s # <<>> /\ s[Len(s)] \in Whitespace
    THEN rstrip(SubSeq(s, 1, Len(s) - 1))
    ELSE s

strip(s) == rstrip(lstrip(s))

PhoneFormatting == {" ", "-", "(", ")"}
IsNotPhoneFormatting(c) == c \notin PhoneFormatting
clean_phone(s) == SelectSeq(s, IsNotPhoneFormatting)

(***************************************************************************)
(* validation.py                                                           *)
(***************************************************************************)
EmailLocalChars == Letters \cup Digits \cup {".", "_", "%", "+", "-"}
EmailDomainChars == Letters \cup Digits \cup {".", "-"}

\* ^[a-zA-Z0-9._%+-]+@[a-zA-Z0-9.-]+\.[a-zA-Z]{2,}$
validate_email(email) ==
    \E at \in 2..Len(email), dot \in 3..Len(email) :
        /\ email[at] = "@"
        /\ AllIn(email, 1, at - 1, EmailLocalChars)
        /\ dot >= at + 2
        /\ AllIn(email, at + 1, dot - 1, EmailDomainChars)
        /\ email[dot] = "."
        /\ Len(email) - dot >= 2
        /\ AllIn(email, dot + 1, Len(email), Letters)

\* ^\+?[1-9]\d{1,14}$ on the input with formatting characters removed
MatchesPhonePattern(s) ==
    LET body == IF s # <<>> /\ Head(s) = "+" THEN Tail(s) ELSE s
    IN  /\ Len(body) >= 2
        /\ Len(body) <= 1 + PHONE_MAX_TAIL
        /\ body[1] \in NonZeroDigits
        /\ AllIn(body, 2, Len(body), Digits)

validate_phone(phone) == MatchesPhonePattern(clean_phone(phone))

normalize_phone(phone) ==
    LET c == clean_phone(phone)
    IN  IF c # <<>> /\ Head(c) = "+" THEN c ELSE <<"+">> \o c

validate_credential_unnormalized(credential) ==
    LET c == strip(credential)
    IN  IF validate_email(c)
        THEN [isValid |-> TRUE, type |-> "email", value |-> c]
        ELSE IF validate_phone(c)
        THEN [isValid |-> TRUE, type |-> "phone", value |-> c]
        ELSE [isValid |-> FALSE, type |-> "none", value |-> <<>>]

validate_credential(credential) ==
    LET c == strip(credential)
    IN  IF validate_email(c)
        THEN [isValid |-> TRUE, type |-> "email", value |-> lower(c)]
        ELSE IF validate_phone(c)
        THEN [isValid |-> TRUE, type |-> "phone", value |-> normalize_phone(c)]
        ELSE [isValid |-> FALSE, type |-> "none", value |-> <<>>]

(***************************************************************************)
(* utils/auth.py: password hashing.  bcrypt draws a random salt and reads  *)
(* only the first 72 bytes of the password; the digest is modelled as an   *)
(* ideal (collision free) function of the salt and those bytes.            *)
(***************************************************************************)

TruncateOneShort(password) ==
    IF Len(password) > BCRYPT_MAX_BYTES - 1
    THEN SubSeq(password, 1, BCRYPT_MAX_BYTES - 1)
    ELSE password

TruncateNever(password) == password

Truncate(password) ==
    IF Len(password) > BCRYPT_MAX_BYTES
    THEN SubSeq(password, 1, BCRYPT_MAX_BYTES)
    ELSE password

Bcrypt(salt, secret) == <<salt, Truncate(secret)>>

hash_password(password, salt) == [salt |-> salt, digest |-> Bcrypt(salt, password)]

verify_password(plain_password, hashed_password) ==
    Bcrypt(hashed_password.salt, plain_password) = hashed_password.digest

(***************************************************************************)
(* utils/auth.py: the token codec.  A JWT is its claims together with the  *)
(* secret that signed it; HS256 is deterministic, so two tokens with the   *)
(* same claims and the same secret are the same string.                    *)
(***************************************************************************)
JWT_SECRET == "JWT_SECRET"
JWT_REFRESH_SECRET == "JWT_REFRESH_SECRET"

NoToken == [secret |-> "", type |-> "", id |-> 0, role |-> "", exp |-> 0, jti |-> 0]

create_access_token(id, role, t) ==
    [secret |-> JWT_SECRET, type |-> "access", id |-> id, role |-> role,
     exp |-> t + JWT_ACCESS_EXPIRES * SecondsPerMinute, jti |-> 0]

create_refresh_token(id, t) ==
    [secret |-> JWT_REFRESH_SECRET, type |-> "refresh", id |-> id, role |-> "",
     exp |-> t + JWT_REFRESH_EXPIRES * SecondsPerDay, jti |-> 0]

create_guest_token(uuid, t) ==
    [secret |-> JWT_SECRET, type |-> "guest", id |-> 0, role |-> "",
     exp |-> t + JWT_GUEST_EXPIRES * SecondsPerMinute, jti |-> uuid]

generate_tokens(id, role, t) ==
    [accessToken |-> create_access_token(id, role, t),
     refreshToken |-> create_refresh_token(id, t)]

\* f"guest_{guest_token}": the string guest_login returns
guest_(token) == [prefix |-> "guest_", jwt |-> token]

\* jose.jwt.decode: a string that is not a JWT does not decode; the signature
\* is checked against the secret, then exp against the clock (a token is
\* expired when exp < now).
jwt_decode_ok(token, secret, t) ==
    /\ "secret" \in DOMAIN token
    /\ token.secret = secret
    /\ ~(token.exp < t)

verify_token_of_any_type(token, token_type, t) ==
    LET secret == IF token_type = "access" THEN JWT_SECRET ELSE JWT_REFRESH_SECRET
    IN  IF ~jwt_decode_ok(token, secret, t)
        THEN [ok |-> FALSE, status |-> 401, detail |-> "Invalid or expired token"]
        ELSE [ok |-> TRUE, status |-> 200, detail |-> ""]

verify_token(token, token_type, t) ==
    LET secret == IF token_type = "access" THEN JWT_SECRET ELSE JWT_REFRESH_SECRET
    IN  IF ~jwt_decode_ok(token, secret, t)
        THEN [ok |-> FALSE, status |-> 401, detail |-> "Invalid or expired token"]
        ELSE IF token.type # token_type
        THEN [ok |-> FALSE, status |-> 401, detail |-> "Invalid token type"]
        ELSE [ok |-> TRUE, status |-> 200, detail |-> ""]

(***************************************************************************)
(* The state.                                                              *)
(*   users     the users collection, in insertion order; a document's _id  *)
(*             is its position                                             *)
(*   now       datetime.utcnow(), in seconds                               *)
(*   nsecrets  how many secrets.token_urlsafe / uuid4 values were drawn;   *)
(*             the n-th value drawn is n                                   *)
(*   pc, loc   where each request being served stands, and its locals      *)
(*   resp      the response each client received last                      *)
(*   issued    every JWT a response has handed to a client                 *)
(*   used      the refresh tokens a completed /refresh has exchanged       *)
(*   quota     how many more requests of each kind the clients will send,  *)
(*             and how many more times the clock moves                     *)
(***************************************************************************)
VARIABLES users, now, nsecrets, pc, loc, resp, issued, used, quota

vars == <<users, now, nsecrets, pc, loc, resp, issued, used, quota>>

Procs == {"p1", "p2"}

NoText == <<>>
NoSecret == 0
BogusSecret == NoSecret - 1
NoTime == 0 - 1
NoUser == 0

UserIds == 1..Len(users)

NoLoc == [req |-> [op |-> "none"]]
NoResp == [req |-> [op |-> "none"]]

NoUserView ==
    [id |-> NoUser, email |-> NoText, phone |-> NoText, role |-> "",
     isVerified |-> FALSE, isOfficialVerified |-> FALSE, lastLogin |-> NoTime]

\* UserResponse(...) as the handlers build it from a user document
UserResponse(id, user, lastLogin) ==
    [id |-> id, email |-> user.email, phone |-> user.phone, role |-> user.role,
     isVerified |-> user.isVerified, isOfficialVerified |-> user.isOfficialVerified,
     lastLogin |-> lastLogin]

Response(req, status, detail) ==
    [req |-> req, status |-> status, detail |-> detail, userId |-> NoUser,
     user |-> NoUserView, accessToken |-> NoToken, cookie |-> NoToken]

Reply(p, r) ==
    /\ pc' = [pc EXCEPT ![p] = "idle"]
    /\ loc' = [loc EXCEPT ![p] = NoLoc]
    /\ resp' = [resp EXCEPT ![p] = r]

Goto(p, label, locals) ==
    /\ pc' = [pc EXCEPT ![p] = label]
    /\ loc' = [loc EXCEPT ![p] = locals]
    /\ resp' = resp

Receive(p, label, req) ==
    /\ pc[p] = "idle"
    /\ quota[req.op] > 0
    /\ quota' = [quota EXCEPT ![req.op] = @ - 1]
    /\ pc' = [pc EXCEPT ![p] = label]
    /\ loc' = [loc EXCEPT ![p] = [req |-> req]]
    /\ resp' = [resp EXCEPT ![p] = NoResp]
    /\ UNCHANGED <<users, now, nsecrets, issued, used>>

(***************************************************************************)
(* The datastore: update operators on one document, unique indexes.        *)
(***************************************************************************)
HasToken(user, token) ==
    \E i \in 1..Len(user.refreshTokens) : user.refreshTokens[i].token = token

\* {"$pull": {"refreshTokens": {"token": token}}}
Pull(list, token) ==
    LET Keep(entry) == entry.token # token
    IN  SelectSeq(list, Keep)

\* {"$push": {"refreshTokens": {"$each": [entry], "$slice": -5}}}
Slice(list, n) ==
    IF Len(list) > n THEN SubSeq(list, Len(list) - n + 1, Len(list)) ELSE list

PushSliceOneTooMany(list, entry) == Slice(Append(list, entry), REFRESH_SLICE + 1)

PushSliceKeepingOldest(list, entry) ==
    IF Len(list) >= REFRESH_SLICE THEN SubSeq(list, 1, REFRESH_SLICE) ELSE Append(list, entry)

PushSlice(list, entry) == Slice(Append(list, entry), REFRESH_SLICE)

\* the unique index on email and the unique sparse index on phone
DuplicateKey(id, email, phone) ==
    \E other \in UserIds \ {id} :
        \/ users[other].email = email
        \/ phone # NoText /\ users[other].phone = phone

(***************************************************************************)
(* The clock.  It moves by a second, or past every expiry of the module    *)
(* at once.                                                                *)
(***************************************************************************)
LongJump == JWT_REFRESH_EXPIRES * SecondsPerDay + 1
Jumps == {1, LongJump}

Tick ==
    /\ quota.tick > 0
    /\ quota' = [quota EXCEPT !.tick = @ - 1]
    /\ \E d \in Jumps : now' = now + d
    /\ UNCHANGED <<users, nsecrets, pc, loc, resp, issued, used>>

(***************************************************************************)
(* What clients send.                                                      *)
(***************************************************************************)
Text_a_x_co == <<"a", "@", "x", ".", "c", "o">>
Text_A_x_co == <<"A", "@", "x", ".", "c", "o">>
Text_b_x_co == <<"b", "@", "x", ".", "c", "o">>
Text_c_x_co == <<"c", "@", "x", ".", "c", "o">>
Text_9_1 == <<"9", "-", "1">>
Text_91 == <<"9", "1">>
Text_92 == <<"9", "2">>
Text_name == <<"a", "b">>
Text_org == <<"x">>
Text_bad == <<"a", "b", "c">>

Password1 == <<1, 1, 1, 1, 1, 1, 1, 1>>
Password2 == <<2, 2, 2, 2, 2, 2, 2, 2>>
PasswordShort == <<1>>

LoginRequest(credential, password) ==
    [op |-> "login", credential |-> credential, password |-> password]

\* a well-formed refresh token signed with a key that is not the server's
ForgedToken ==
    [secret |-> "attacker", type |-> "refresh", id |-> 1, role |-> "",
     exp |-> 2 * LongJump, jti |-> 0]

\* the refreshToken cookie of a request: absent, forged, or a refresh token
\* the server has handed out
Cookies == {c \in issued : c.type = "refresh"} \cup {NoToken, ForgedToken}

(***************************************************************************)
(* routes/auth.py: login                                                   *)
(***************************************************************************)
CallLogin(p, requests) == \E req \in requests : Receive(p, "login_find", req)

\* lines 196-204: the find_one query of login
login_query(credential, cv) ==
    IF cv.type = "email"
    THEN {id \in UserIds : users[id].email = cv.value}
    ELSE {id \in UserIds : /\ users[id].phone # NoText
                           /\ users[id].phone \in {credential, cv.value}}

login_check_without_approval(req, id) ==
    IF id = NoUser \/ ~verify_password(req.password, users[id].password)
    THEN Response(req, 401, "Invalid credentials")
    ELSE IF ~users[id].isVerified
    THEN [Response(req, 403, "Please verify your account first") EXCEPT !.userId = id]
    ELSE Response(req, 200, "Login successful")

login_check_without_verification(req, id) ==
    IF id = NoUser \/ ~verify_password(req.password, users[id].password)
    THEN Response(req, 401, "Invalid credentials")
    ELSE IF users[id].role = "official" /\ ~users[id].isOfficialVerified
    THEN Response(req, 403, "Your official account is pending verification. Please contact your administrator.")
    ELSE Response(req, 200, "Login successful")

login_check_telling_accounts(req, id) ==
    IF id = NoUser
    THEN Response(req, 404, "User not found")
    ELSE IF ~verify_password(req.password, users[id].password)
    THEN Response(req, 401, "Invalid credentials")
    ELSE IF ~users[id].isVerified
    THEN [Response(req, 403, "Please verify your account first") EXCEPT !.userId = id]
    ELSE IF users[id].role = "official" /\ ~users[id].isOfficialVerified
    THEN Response(req, 403, "Your official account is pending verification. Please contact your administrator.")
    ELSE Response(req, 200, "Login successful")

login_check_flags_first(req, id) ==
    IF id = NoUser
    THEN Response(req, 401, "Invalid credentials")
    ELSE IF ~users[id].isVerified
    THEN [Response(req, 403, "Please verify your account first") EXCEPT !.userId = id]
    ELSE IF users[id].role = "official" /\ ~users[id].isOfficialVerified
    THEN Response(req, 403, "Your official account is pending verification. Please contact your administrator.")
    ELSE IF ~verify_password(req.password, users[id].password)
    THEN Response(req, 401, "Invalid credentials")
    ELSE Response(req, 200, "Login successful")

\* lines 206-228: the checks of login on the document found (NoUser: none)
login_check(req, id) ==
    IF id = NoUser \/ ~verify_password(req.password, users[id].password)
    THEN Response(req, 401, "Invalid credentials")
    ELSE IF ~users[id].isVerified
    THEN [Response(req, 403, "Please verify your account first") EXCEPT !.userId = id]
    ELSE IF users[id].role = "official" /\ ~users[id].isOfficialVerified
    THEN Response(req, 403, "Your official account is pending verification. Please contact your administrator.")
    ELSE Response(req, 200, "Login successful")

\* lines 192-231.  The request on record is extended with what the handler
\* saw: the document find_one returned and whether the password matched it.
LoginFind(p) ==
    /\ pc[p] = "login_find"
    /\ LET sent == loc[p].req
           cv == validate_credential(sent.credential)
           found == login_query(sent.credential, cv)
       IN  IF ~cv.isValid
           THEN Reply(p, Response(sent @@ [found |-> NoUser, passwordOk |-> FALSE], 400,
                                  "Please provide a valid email address or phone number"))
           ELSE \E id \in (IF found = {} THEN {NoUser} ELSE found) :
                    LET ok == id # NoUser /\ verify_password(sent.password, users[id].password)
                        req == sent @@ [found |-> id, passwordOk |-> ok]
                        r == login_check(req, id)
                    IN  IF r.status # 200
                        THEN Reply(p, r)
                        ELSE Goto(p, "login_update",
                                  [req |-> req, id |-> id, t |-> now,
                                   user |-> UserResponse(id, users[id], NoTime),
                                   tokens |-> generate_tokens(id, users[id].role, now)])
    /\ UNCHANGED <<users, now, nsecrets, issued, used, quota>>

\* lines 233-275
LoginUpdate(p) ==
    /\ pc[p] = "login_update"
    /\ LET l == loc[p]
           entry == [token |-> l.tokens.refreshToken, createdAt |-> l.t]
           before == users[l.id].refreshTokens
       IN  /\ users' = [users EXCEPT ![l.id].refreshTokens = PushSlice(before, entry),
                                      ![l.id].lastLogin = l.t]
           /\ issued' = issued \cup {l.tokens.accessToken, l.tokens.refreshToken}
           /\ Reply(p, [Response(l.req, 200, "Login successful") EXCEPT
                          !.user = [l.user EXCEPT !.lastLogin = now],
                          !.accessToken = l.tokens.accessToken,
                          !.cookie = l.tokens.refreshToken])
    /\ UNCHANGED <<now, nsecrets, used, quota>>

(***************************************************************************)
(* routes/auth.py: refresh_token                                           *)
(***************************************************************************)
RefreshLabels == {"refresh_find", "refresh_pull", "refresh_push"}

\* replay, peers and listed describe the moment the request arrived: whether a
\* completed /refresh had exchanged the cookie before, which other /refresh
\* requests were being served, whether the cookie was in its account's list
CallRefreshWith(p, cookies) ==
    \E c \in cookies :
        Receive(p, "refresh_find",
                [op |-> "refresh", cookie |-> c,
                 replay |-> c \in used,
                 peers |-> {q \in Procs \ {p} : pc[q] \in RefreshLabels},
                 listed |-> /\ "id" \in DOMAIN c
                            /\ c.id \in UserIds
                            /\ HasToken(users[c.id], c)])

CallRefresh(p) == CallRefreshWith(p, Cookies)

\* refresh_check without the look-up of the cookie in the account's list
refresh_check_signature_only(req) ==
    LET c == req.cookie
        v == verify_token(c, "refresh", now)
    IN  IF c = NoToken
        THEN Response(req, 401, "Refresh token not found")
        ELSE IF ~v.ok
        THEN Response(req, 401, "401: Invalid or expired token")
        ELSE IF c.id \notin UserIds
        THEN Response(req, 401, "401: User not found")
        ELSE Response(req, 200, "Token refreshed successfully")

\* lines 448-466: the checks of refresh_token; str(e) of an HTTPException
\* raised inside the try block is "<status>: <detail>"
refresh_check(req) ==
    LET c == req.cookie
        v == verify_token(c, "refresh", now)
    IN  IF c = NoToken
        THEN Response(req, 401, "Refresh token not found")
        ELSE IF ~v.ok
        THEN Response(req, 401, IF v.detail = "Invalid token type"
                                THEN "401: Invalid token type"
                                ELSE "401: Invalid or expired token")
        ELSE IF c.id \notin UserIds
        THEN Response(req, 401, "401: User not found")
        ELSE IF ~HasToken(users[c.id], c)
        THEN Response(req, 401, "401: Invalid refresh token")
        ELSE Response(req, 200, "Token refreshed successfully")

RefreshFind(p) ==
    /\ pc[p] = "refresh_find"
    /\ LET req == loc[p].req
           r == refresh_check(req)
           id == req.cookie.id
       IN  IF r.status # 200
           THEN Reply(p, r)
           ELSE Goto(p, "refresh_pull",
                     [req |-> req, id |-> id, t |-> now,
                      user |-> UserResponse(id, users[id], users[id].lastLogin),
                      tokens |-> generate_tokens(id, users[id].role, now)])
    /\ UNCHANGED <<users, now, nsecrets, issued, used, quota>>

\* lines 471-477; the createdAt of the entry pushed next is read from the
\* clock once this update has returned
RefreshPull(p) ==
    /\ pc[p] = "refresh_pull"
    /\ users' = [users EXCEPT ![loc[p].id].refreshTokens = Pull(@, loc[p].req.cookie)]
    /\ Goto(p, "refresh_push", [loc[p] EXCEPT !.t = now])
    /\ UNCHANGED <<now, nsecrets, issued, used, quota>>

\* lines 479-519
RefreshPush(p) ==
    /\ pc[p] = "refresh_push"
    /\ LET l == loc[p]
           entry == [token |-> l.tokens.refreshToken, createdAt |-> l.t]
       IN  /\ users' = [users EXCEPT ![l.id].refreshTokens = PushSlice(@, entry)]
           /\ issued' = issued \cup {l.tokens.accessToken, l.tokens.refreshToken}
           /\ used' = used \cup {l.req.cookie}
           /\ Reply(p, [Response(l.req, 200, "Token refreshed successfully") EXCEPT
                          !.user = l.user,
                          !.accessToken = l.tokens.accessToken,
                          !.cookie = l.tokens.refreshToken])
    /\ UNCHANGED <<now, nsecrets, quota>>

(***************************************************************************)
(* routes/auth.py: logout                                                  *)
(***************************************************************************)
CallLogout(p) ==
    \E c \in Cookies : Receive(p, "logout_pull", [op |-> "logout", cookie |-> c])

\* lines 529-547: every failure is swallowed
LogoutPull(p) ==
    /\ pc[p] = "logout_pull"
    /\ LET c == loc[p].req.cookie
       IN  /\ users' = IF /\ c # NoToken
                          /\ verify_token(c, "refresh", now).ok
                          /\ c.id \in UserIds
                       THEN [users EXCEPT ![c.id].refreshTokens = Pull(@, c)]
                       ELSE users
           /\ Reply(p, Response(loc[p].req, 200, "Logout successful"))
    /\ UNCHANGED <<now, nsecrets, issued, used, quota>>

(***************************************************************************)
(* routes/auth.py: register                                                *)
(***************************************************************************)
RegisterRequest(email, phone, password, role, officialId, organization) ==
    [op |-> "register", fullName |-> Text_name, email |-> email, phone |-> phone,
     password |-> password, confirmPassword |-> password, role |-> role,
     officialId |-> officialId, organization |-> organization]

\* validation.py, sanitize_user_data
sanitize_user_data(data) ==
    [data EXCEPT !.fullName = strip(@),
                 !.email = lower(strip(@)),
                 !.phone = IF @ # NoText THEN normalize_phone(strip(@)) ELSE @,
                 !.officialId = strip(@),
                 !.organization = strip(@)]

\* validation.py, validate_registration_data: isValid
validate_registration_data(data) ==
    /\ data.fullName # NoText /\ Len(strip(data.fullName)) >= 1
    /\ Len(data.fullName) <= FULL_NAME_MAX
    /\ data.email # NoText /\ validate_email(data.email)
    /\ data.phone # NoText => validate_phone(data.phone)
    /\ data.password # <<>> /\ Len(data.password) >= MIN_PASSWORD_LENGTH
    /\ data.password = data.confirmPassword
    /\ data.role \in {"citizen", "official"}
    /\ data.role = "official" => data.officialId # NoText /\ data.organization # NoText

\* lines 52-62: the $or query of register
register_query(data) ==
    {id \in UserIds :
        \/ users[id].email = lower(data.email)
        \/ /\ data.phone # NoText
           /\ users[id].phone # NoText
           /\ users[id].phone \in {data.phone, normalize_phone(data.phone)}}

\* lines 30-34
generate_verification_token(n, t) ==
    [token |-> n + 1, expires |-> t + VERIFICATION_HOURS * SecondsPerHour]

\* lines 125-155: the document register inserts
NewUser(data, hash, vt) ==
    [fullName |-> data.fullName, email |-> lower(data.email),
     phone |-> IF data.phone # NoText THEN normalize_phone(data.phone) ELSE NoText,
     password |-> hash, role |-> data.role,
     isVerified |-> FALSE, isOfficialVerified |-> FALSE,
     verificationToken |-> vt.token, verificationTokenExpires |-> vt.expires,
     passwordResetToken |-> NoSecret, passwordResetExpires |-> NoTime,
     refreshTokens |-> <<>>, lastLogin |-> NoTime,
     officialId |-> IF data.role = "official" THEN data.officialId ELSE NoText,
     organization |-> IF data.role = "official" THEN data.organization ELSE NoText]

\* a re-registration that replaced the document by a new one, its sessions
\* kept
ReregisteredAsNew(user, data, hash, vt) ==
    [NewUser(data, hash, vt) EXCEPT !.refreshTokens = user.refreshTokens]

\* lines 70-92: the $set register applies to an unverified document
Reregistered(user, data, hash, vt) ==
    [user EXCEPT !.fullName = data.fullName,
                 !.email = lower(data.email),
                 !.password = hash,
                 !.role = data.role,
                 !.verificationToken = vt.token,
                 !.verificationTokenExpires = vt.expires,
                 !.phone = IF data.phone # NoText THEN normalize_phone(data.phone) ELSE @,
                 !.officialId = IF data.role = "official" THEN data.officialId ELSE @,
                 !.organization = IF data.role = "official" THEN data.organization ELSE @]

\* aiosmtplib.send: the mail collaborator delivers, or fails as often as
\* the specification lets it
Deliver(delivered) ==
    /\ delivered \/ quota.mailfail > 0
    /\ quota' = IF delivered THEN quota ELSE [quota EXCEPT !.mailfail = @ - 1]

send_email_unguarded(delivered) == [success |-> delivered, raised |-> ~delivered]

\* email_service.py 13-52: every exception of the collaborator is caught and
\* reported in the result
send_email(delivered) == [success |-> delivered, raised |-> FALSE]

CallRegister(p, requests) == \E req \in requests : Receive(p, "reg_find", req)

\* the account that holds the e-mail address of a registration (the unique
\* index allows one at most), NoUser if there is none
EmailOwner(data) ==
    IF \E id \in UserIds : users[id].email = lower(data.email)
    THEN CHOOSE id \in UserIds : users[id].email = lower(data.email)
    ELSE NoUser

\* lines 42-88 and 120-123.  The request on record is extended with what the
\* collection held when find_one ran: the account of the e-mail address,
\* whether it was verified, and whether the request was valid.
RegisterFind(p, salts) ==
    /\ pc[p] = "reg_find"
    /\ LET sent == loc[p].req
           data == sanitize_user_data(sent)
           found == register_query(data)
           vt == generate_verification_token(nsecrets, now)
           owner == EmailOwner(data)
           req == sent @@ [valid |-> validate_registration_data(data),
                           owner |-> owner,
                           ownerVerified |-> owner # NoUser /\ users[owner].isVerified]
       IN  IF ~validate_registration_data(data)
           THEN Reply(p, Response(req, 400, "Validation failed")) /\ nsecrets' = nsecrets
           ELSE IF found = {}
           THEN /\ \E salt \in salts :
                       Goto(p, "reg_insert",
                            [req |-> req, data |-> data, vt |-> vt,
                             hash |-> hash_password(data.password, salt)])
                /\ nsecrets' = vt.token
           ELSE \E id \in found :
                    IF users[id].isVerified
                    THEN /\ Reply(p, Response(req, 400, "User already exists with this email or phone"))
                         /\ nsecrets' = nsecrets
                    ELSE /\ \E salt \in salts :
                                Goto(p, "reg_update",
                                     [req |-> req, data |-> data, vt |-> vt, id |-> id,
                                      hash |-> hash_password(data.password, salt)])
                         /\ nsecrets' = vt.token
    /\ UNCHANGED <<users, now, issued, used, quota>>

\* lines 89-92; a write that breaks a unique index raises DuplicateKeyError,
\* which main.py turns into a 500 response
RegisterUpdate(p) ==
    /\ pc[p] = "reg_update"
    /\ LET l == loc[p]
           doc == Reregistered(users[l.id], l.data, l.hash, l.vt)
       IN  IF DuplicateKey(l.id, doc.email, doc.phone)
           THEN /\ Reply(p, Response(l.req, 500, "Internal server error"))
                /\ users' = users
           ELSE /\ users' = [users EXCEPT ![l.id] = doc]
                /\ Goto(p, "reg_reload", [req |-> l.req, id |-> l.id, updated |-> TRUE])
    /\ UNCHANGED <<now, nsecrets, issued, used, quota>>

\* line 157
RegisterInsert(p) ==
    /\ pc[p] = "reg_insert"
    /\ LET l == loc[p]
           doc == NewUser(l.data, l.hash, l.vt)
       IN  IF DuplicateKey(NoUser, doc.email, doc.phone)
           THEN /\ Reply(p, Response(l.req, 500, "Internal server error"))
                /\ users' = users
           ELSE /\ users' = Append(users, doc)
                /\ Goto(p, "reg_reload",
                        [req |-> l.req, id |-> Len(users) + 1, updated |-> FALSE])
    /\ UNCHANGED <<now, nsecrets, issued, used, quota>>

\* lines 94-118 and 159-183: the mail is sent, the document is read again
\* and returned with an empty token; the handler does not look at what
\* send_verification_email returns, an exception it raised would end the
\* request with the 500 of main.py.  The request on record is extended with
\* whether the mail went out.
RegisterReload(p) ==
    /\ pc[p] = "reg_reload"
    /\ \E delivered \in BOOLEAN :
           LET l == loc[p]
               user == users[l.id]
               mail == send_email(delivered)
           IN  /\ Deliver(delivered)
               /\ IF mail.raised
                  THEN Reply(p, Response(l.req, 500, "Internal server error"))
                  ELSE Reply(p, [Response(l.req @@ [mailed |-> mail.success], 200,
                                          IF l.updated
                                          THEN "Registration updated successfully. Please check your email for verification."
                                          ELSE "Registration successful. Please check your email for verification.")
                                 EXCEPT !.user = UserResponse(l.id, user, user.lastLogin),
                                        !.userId = l.id])
    /\ UNCHANGED <<users, now, nsecrets, issued, used>>

(***************************************************************************)
(* routes/auth.py: verify_account                                          *)
(***************************************************************************)
CallVerify(p) ==
    \E id \in 1..(Len(users) + 1), token \in (1..nsecrets) \cup {BogusSecret} :
        Receive(p, "verify_find", [op |-> "verify", userId |-> id, token |-> token])

verify_check_by_token_only(req) ==
    IF ~(/\ req.userId \in UserIds
         /\ \E id \in UserIds : users[id].verificationToken = req.token)
    THEN Response(req, 400, "Invalid or expired verification token")
    ELSE Response(req, 200, "Account verified successfully")

verify_check_of_any_token(req) ==
    IF req.userId \notin UserIds
    THEN Response(req, 400, "Invalid or expired verification token")
    ELSE Response(req, 200, "Account verified successfully")

verify_check_ignoring_expiry(req) ==
    IF ~(req.userId \in UserIds /\ users[req.userId].verificationToken = req.token)
    THEN Response(req, 400, "Invalid or expired verification token")
    ELSE Response(req, 200, "Account verified successfully")

\* lines 294-304
verify_check(req) ==
    IF ~(req.userId \in UserIds /\ users[req.userId].verificationToken = req.token)
    THEN Response(req, 400, "Invalid or expired verification token")
    ELSE IF /\ users[req.userId].verificationTokenExpires # NoTime
            /\ users[req.userId].verificationTokenExpires < now
    THEN Response(req, 400, "Verification token has expired")
    ELSE Response(req, 200, "Account verified successfully")

VerifyFind(p) ==
    /\ pc[p] = "verify_find"
    /\ LET r == verify_check(loc[p].req)
       IN  IF r.status # 200
           THEN Reply(p, r)
           ELSE Goto(p, "verify_update", [req |-> loc[p].req, id |-> loc[p].req.userId])
    /\ UNCHANGED <<users, now, nsecrets, issued, used, quota>>

\* lines 306-324
VerifyUpdate(p) ==
    /\ pc[p] = "verify_update"
    /\ users' = [users EXCEPT ![loc[p].id] =
                    [@ EXCEPT !.isVerified = TRUE,
                              !.verificationToken = NoSecret,
                              !.verificationTokenExpires = NoTime]]
    /\ \E delivered \in BOOLEAN :
           LET mail == send_email(delivered)
           IN  /\ Deliver(delivered)
               /\ IF mail.raised
                  THEN Reply(p, Response(loc[p].req, 500, "Internal server error"))
                  ELSE Reply(p, Response(loc[p].req @@ [mailed |-> mail.success], 200,
                                         "Account verified successfully"))
    /\ UNCHANGED <<now, nsecrets, issued, used>>

(***************************************************************************)
(* routes/auth.py: resend_verification                                     *)
(***************************************************************************)
CallResend(p) ==
    \E id \in 1..(Len(users) + 1) :
        Receive(p, "resend_find", [op |-> "resend", userId |-> id])

resend_check_of_any_account(req) ==
    IF req.userId \notin UserIds
    THEN Response(req, 404, "User not found")
    ELSE Response(req, 200, "Verification email sent successfully")

\* lines 332-338: the checks of resend_verification
resend_check(req) ==
    IF req.userId \notin UserIds
    THEN Response(req, 404, "User not found")
    ELSE IF users[req.userId].isVerified
    THEN Response(req, 400, "Account is already verified")
    ELSE Response(req, 200, "Verification email sent successfully")

\* lines 332-341
ResendFind(p) ==
    /\ pc[p] = "resend_find"
    /\ LET req == loc[p].req
           r == resend_check(req)
           vt == generate_verification_token(nsecrets, now)
       IN  IF r.status # 200
           THEN Reply(p, r) /\ nsecrets' = nsecrets
           ELSE /\ Goto(p, "resend_update", [req |-> req, id |-> req.userId, vt |-> vt])
                /\ nsecrets' = vt.token
    /\ UNCHANGED <<users, now, issued, used, quota>>

\* lines 343-361.  The request on record is extended with the token this
\* write replaced and the token it stored.
ResendUpdate(p) ==
    /\ pc[p] = "resend_update"
    /\ LET l == loc[p]
           req == l.req @@ [previous |-> users[l.id].verificationToken,
                            fresh |-> l.vt.token]
       IN  /\ users' = [users EXCEPT ![l.id] =
                           [@ EXCEPT !.verificationToken = l.vt.token,
                                     !.verificationTokenExpires = l.vt.expires]]
           /\ \E delivered \in BOOLEAN :
                  LET mail == send_email(delivered)
                  IN  /\ Deliver(delivered)
                      /\ IF mail.raised
                         THEN Reply(p, Response(req, 500, "Internal server error"))
                         ELSE Reply(p, Response(req @@ [mailed |-> mail.success], 200,
                                                "Verification email sent successfully"))
    /\ UNCHANGED <<now, nsecrets, issued, used>>

(***************************************************************************)
(* routes/auth.py: forgot_password                                         *)
(***************************************************************************)
ForgotRequest(credential) == [op |-> "forgot", credential |-> credential]

CallForgot(p, requests) == \E req \in requests : Receive(p, "forgot_find", req)

\* lines 375-378: the find_one query of forgot_password
forgot_query(cv) ==
    IF cv.type = "email"
    THEN {id \in UserIds : users[id].email = cv.value}
    ELSE {id \in UserIds : users[id].phone = cv.value}

\* lines 386-387
generate_reset_token(n, t) ==
    [token |-> n + 1, expires |-> t + RESET_HOURS * SecondsPerHour]

forgot_reply_telling_accounts(req, cv, id) ==
    IF id = NoUser
    THEN Response(req, 404, "User not found")
    ELSE IF cv.type = "email"
    THEN Response(req, 200, "If an account exists with this email, a password reset link has been sent.")
    ELSE Response(req, 200, "If an account exists with this phone, a password reset link has been sent.")

\* lines 384 and 408: the message of forgot_password, for the document found
\* (NoUser: none)
forgot_reply(req, cv, id) ==
    IF cv.type = "email"
    THEN Response(req, 200, "If an account exists with this email, a password reset link has been sent.")
    ELSE Response(req, 200, "If an account exists with this phone, a password reset link has been sent.")

\* lines 369-388.  The request on record is extended with the document
\* find_one returned.
ForgotFind(p) ==
    /\ pc[p] = "forgot_find"
    /\ LET sent == loc[p].req
           cv == validate_credential(sent.credential)
           found == forgot_query(cv)
           rt == generate_reset_token(nsecrets, now)
       IN  IF ~cv.isValid
           THEN /\ Reply(p, Response(sent @@ [found |-> NoUser], 400,
                                     "Please provide a valid email address or phone number"))
                /\ nsecrets' = nsecrets
           ELSE IF found = {}
           THEN /\ Reply(p, forgot_reply(sent @@ [found |-> NoUser], cv, NoUser))
                /\ nsecrets' = nsecrets
           ELSE \E id \in found :
                    /\ Goto(p, "forgot_update",
                            [req |-> sent @@ [found |-> id], id |-> id, rt |-> rt, cv |-> cv])
                    /\ nsecrets' = rt.token
    /\ UNCHANGED <<users, now, issued, used, quota>>

\* lines 390-408
ForgotUpdate(p) ==
    /\ pc[p] = "forgot_update"
    /\ LET l == loc[p]
       IN  /\ users' = [users EXCEPT ![l.id] =
                           [@ EXCEPT !.passwordResetToken = l.rt.token,
                                     !.passwordResetExpires = l.rt.expires]]
           /\ Reply(p, forgot_reply(l.req, l.cv, l.id))
    /\ UNCHANGED <<now, nsecrets, issued, used, quota>>

(***************************************************************************)
(* routes/auth.py: reset_password                                          *)
(***************************************************************************)
ResetRequest(token, password, confirmPassword) ==
    [op |-> "reset", token |-> token, password |-> password,
     confirmPassword |-> confirmPassword]

\* bodies: the <<password, confirmPassword>> pairs clients send
CallReset(p, bodies) ==
    \E token \in (1..nsecrets) \cup {BogusSecret}, body \in bodies :
        Receive(p, "reset_find", ResetRequest(token, body[1], body[2]))

\* schemas.py 67-83: the request body FastAPI accepts
ResetPasswordRequest(req) ==
    /\ Len(req.password) >= MIN_PASSWORD_LENGTH
    /\ req.confirmPassword = req.password

\* line 416: the find_one query of reset_password
reset_query(token) == {id \in UserIds : users[id].passwordResetToken = token}

reset_check_ignoring_expiry(req, id) ==
    IF id = NoUser
    THEN Response(req, 400, "Invalid or expired reset token")
    ELSE Response(req, 200, "Password reset successful")

\* lines 418-423: the checks of reset_password on the document found
\* (NoUser: none)
reset_check(req, id) ==
    IF id = NoUser
    THEN Response(req, 400, "Invalid or expired reset token")
    ELSE IF /\ users[id].passwordResetExpires # NoTime
            /\ users[id].passwordResetExpires < now
    THEN Response(req, 400, "Reset token has expired")
    ELSE Response(req, 200, "Password reset successful")

\* lines 412-423
ResetFind(p) ==
    /\ pc[p] = "reset_find"
    /\ LET req == loc[p].req
           found == reset_query(req.token)
       IN  IF ~ResetPasswordRequest(req)
           THEN Reply(p, Response(req, 422, "Unprocessable Entity"))
           ELSE \E id \in (IF found = {} THEN {NoUser} ELSE found) :
                    LET r == reset_check(req, id)
                    IN  IF r.status # 200
                        THEN Reply(p, r)
                        ELSE Goto(p, "reset_update", [req |-> req, id |-> id])
    /\ UNCHANGED <<users, now, nsecrets, issued, used, quota>>

\* a reset that ended the sessions of the account
ResetUpdateEndingSessions(p, salts) ==
    /\ pc[p] = "reset_update"
    /\ \E salt \in salts :
           users' = [users EXCEPT ![loc[p].id] =
                       [@ EXCEPT !.password = hash_password(loc[p].req.password, salt),
                                 !.passwordResetToken = NoSecret,
                                 !.passwordResetExpires = NoTime,
                                 !.refreshTokens = <<>>]]
    /\ Reply(p, Response(loc[p].req, 200, "Password reset successful"))
    /\ UNCHANGED <<now, nsecrets, issued, used, quota>>

\* lines 426-440
ResetUpdate(p, salts) ==
    /\ pc[p] = "reset_update"
    /\ \E salt \in salts :
           users' = [users EXCEPT ![loc[p].id] =
                       [@ EXCEPT !.password = hash_password(loc[p].req.password, salt),
                                 !.passwordResetToken = NoSecret,
                                 !.passwordResetExpires = NoTime]]
    /\ Reply(p, Response(loc[p].req, 200, "Password reset successful"))
    /\ UNCHANGED <<now, nsecrets, issued, used, quota>>

(***************************************************************************)
(* routes/auth.py: guest_login, and utils/auth.py: verify_token as the     *)
(* routes and dependencies apply it to what a client presents.             *)
(***************************************************************************)
\* lines 278-286.  The response carries "guest_" followed by the JWT; a
\* client that takes the prefix off holds the JWT itself.
GuestLogin(p) ==
    /\ pc[p] = "idle"
    /\ quota.guest > 0
    /\ quota' = [quota EXCEPT !.guest = @ - 1]
    /\ nsecrets' = nsecrets + 1
    /\ issued' = issued \cup {create_guest_token(nsecrets + 1, now)}
    /\ resp' = [resp EXCEPT ![p] =
                   [Response([op |-> "guest"], 200, "Guest session created") EXCEPT
                       !.accessToken = guest_(create_guest_token(nsecrets + 1, now))]]
    /\ UNCHANGED <<users, now, pc, loc, used>>

\* a string that is not a JWT (the guest token with its prefix still on is
\* one)
MalformedToken == [NoToken EXCEPT !.type = "malformed"]

\* what a client can present as a token
Presented == issued \cup {ForgedToken, MalformedToken}

\* verify_token(token, token_type) on a presented token, at the current
\* time; the outcome is the response
VerifyToken(p) ==
    /\ pc[p] = "idle"
    /\ quota.check > 0
    /\ quota' = [quota EXCEPT !.check = @ - 1]
    /\ \E token \in Presented, token_type \in {"access", "refresh"} :
           LET v == verify_token(token, token_type, now)
           IN  resp' = [resp EXCEPT ![p] =
                          Response([op |-> "verify_token", token |-> token,
                                    token_type |-> token_type, t |-> now],
                                   v.status, v.detail)]
    /\ UNCHANGED <<users, now, nsecrets, pc, loc, issued, used>>

(***************************************************************************)
(* utils/auth.py: the dependencies of the protected routes, and one route  *)
(* for each of them.  An Authorization header is its scheme and the string *)
(* after it (scheme "": no header).                                        *)
(***************************************************************************)
\* the headers clients send with the strings they hold
Authorizations(strings) ==
    [scheme : {"", "Basic"}, token : {NoToken}] \cup [scheme : {"Bearer"}, token : strings]

Principal(status, detail, id, is_guest, guestId) ==
    [status |-> status, detail |-> detail, userId |-> id,
     is_guest |-> is_guest, guestId |-> guestId]

get_current_user_or_a_guest(authorization) ==
    LET token == authorization.token
        v == verify_token(token, "access", now)
    IN  IF authorization.scheme # "Bearer"
        THEN Principal(401, "Authorization header required", NoUser, FALSE, NoSecret)
        ELSE IF jwt_decode_ok(token, JWT_SECRET, now) /\ token.type = "guest"
        THEN Principal(200, "", NoUser, TRUE, token.jti)
        ELSE IF ~v.ok
        THEN Principal(v.status, v.detail, NoUser, FALSE, NoSecret)
        ELSE IF token.id \in UserIds /\ users[token.id].isVerified
        THEN Principal(200, "", token.id, FALSE, NoSecret)
        ELSE Principal(401, "User not found", NoUser, FALSE, NoSecret)

get_current_user_unverified_too(authorization) ==
    LET token == authorization.token
        v == verify_token(token, "access", now)
    IN  IF authorization.scheme # "Bearer"
        THEN Principal(401, "Authorization header required", NoUser, FALSE, NoSecret)
        ELSE IF ~v.ok
        THEN Principal(v.status, v.detail, NoUser, FALSE, NoSecret)
        ELSE IF token.id = NoUser
        THEN Principal(401, "Invalid token payload", NoUser, FALSE, NoSecret)
        ELSE IF token.id \notin UserIds
        THEN Principal(401, "User not found", NoUser, FALSE, NoSecret)
        ELSE Principal(200, "", token.id, FALSE, NoSecret)

\* lines 114-142
get_current_user(authorization) ==
    LET token == authorization.token
        v == verify_token(token, "access", now)
    IN  IF authorization.scheme # "Bearer"
        THEN Principal(401, "Authorization header required", NoUser, FALSE, NoSecret)
        ELSE IF ~v.ok
        THEN Principal(v.status, v.detail, NoUser, FALSE, NoSecret)
        ELSE IF token.id = NoUser
        THEN Principal(401, "Invalid token payload", NoUser, FALSE, NoSecret)
        ELSE IF token.id \notin UserIds
        THEN Principal(401, "User not found", NoUser, FALSE, NoSecret)
        ELSE IF ~users[token.id].isVerified
        THEN Principal(403, "Please verify your account", NoUser, FALSE, NoSecret)
        ELSE Principal(200, "", token.id, FALSE, NoSecret)

get_current_user_or_guest_unstripped(authorization) ==
    LET token == authorization.token
    IN  IF authorization.scheme # "Bearer"
        THEN Principal(200, "", NoUser, TRUE, NoSecret)
        ELSE IF /\ verify_token(token, "access", now).ok
                /\ token.id \in UserIds
                /\ users[token.id].isVerified
        THEN Principal(200, "", token.id, FALSE, NoSecret)
        ELSE IF jwt_decode_ok(token, JWT_SECRET, now) /\ token.type = "guest"
        THEN Principal(200, "", NoUser, TRUE, token.jti)
        ELSE Principal(200, "", NoUser, TRUE, NoSecret)

get_current_user_or_guest_unverified_too(authorization) ==
    LET token == authorization.token
        bare == IF "prefix" \in DOMAIN token THEN token.jwt ELSE token
    IN  IF authorization.scheme # "Bearer"
        THEN Principal(200, "", NoUser, TRUE, NoSecret)
        ELSE IF verify_token(token, "access", now).ok /\ token.id \in UserIds
        THEN Principal(200, "", token.id, FALSE, NoSecret)
        ELSE IF jwt_decode_ok(bare, JWT_SECRET, now) /\ bare.type = "guest"
        THEN Principal(200, "", NoUser, TRUE, bare.jti)
        ELSE Principal(200, "", NoUser, TRUE, NoSecret)

\* lines 145-183: (user, is_guest); every exception is swallowed; bare is
\* token.replace("guest_", "")
get_current_user_or_guest(authorization) ==
    LET token == authorization.token
        bare == IF "prefix" \in DOMAIN token THEN token.jwt ELSE token
    IN  IF authorization.scheme # "Bearer"
        THEN Principal(200, "", NoUser, TRUE, NoSecret)
        ELSE IF /\ verify_token(token, "access", now).ok
                /\ token.id \in UserIds
                /\ users[token.id].isVerified
        THEN Principal(200, "", token.id, FALSE, NoSecret)
        ELSE IF jwt_decode_ok(bare, JWT_SECRET, now) /\ bare.type = "guest"
        THEN Principal(200, "", NoUser, TRUE, bare.jti)
        ELSE Principal(200, "", NoUser, TRUE, NoSecret)

require_official_by_role(user) ==
    IF user.role # "official"
    THEN [status |-> 403, detail |-> "This action requires official access"]
    ELSE [status |-> 200, detail |-> ""]

\* lines 196-205
require_official(user) ==
    IF user.role # "official"
    THEN [status |-> 403, detail |-> "This action requires official access"]
    ELSE IF ~user.isOfficialVerified
    THEN [status |-> 403, detail |-> "Your official account is pending verification"]
    ELSE [status |-> 200, detail |-> ""]

\* a request to a protected route is served in one step: the dependency
\* makes the only datastore read, and what the route does after it is left
\* out.  The request on record carries what the dependency returned.
Protected(p, op, authorization, principal, status, detail) ==
    /\ pc[p] = "idle"
    /\ quota.check > 0
    /\ quota' = [quota EXCEPT !.check = @ - 1]
    /\ resp' = [resp EXCEPT ![p] =
                   [Response([op |-> op, authorization |-> authorization,
                              principal |-> principal, t |-> now],
                             status, detail) EXCEPT !.userId = principal.userId]]
    /\ UNCHANGED <<users, now, nsecrets, pc, loc, issued, used>>

\* routes/user.py 16-17: get_profile, behind get_current_user
GetProfile(p, strings) ==
    \E a \in Authorizations(strings) :
        LET u == get_current_user(a)
        IN  Protected(p, "get_profile", a, u, u.status, u.detail)

\* routes/alerts.py 16-22: create_alert, behind get_current_user and
\* require_official
CreateAlert(p, strings) ==
    \E a \in Authorizations(strings) :
        LET u == get_current_user(a)
            o == IF u.status = 200 THEN require_official(users[u.userId]) ELSE u
        IN  Protected(p, "create_alert", a, u, o.status, o.detail)

\* routes/reports.py 18-29: create_report, behind get_current_user_or_guest
CreateReport(p, strings) ==
    \E a \in Authorizations(strings) :
        LET u == get_current_user_or_guest(a)
        IN  IF u.userId = NoUser /\ u.guestId = NoSecret
            THEN Protected(p, "create_report", a, u, 401, "Authentication required")
            ELSE Protected(p, "create_report", a, u, 200, "")

(***************************************************************************)
(* Specifications.  Each one fixes the requests the clients may send and   *)
(* how many of each kind they send.                                        *)
(***************************************************************************)
Quota(register, verify, login, refresh, logout) ==
    [register |-> register, verify |-> verify, login |-> login,
     refresh |-> refresh, logout |-> logout, tick |-> MaxTicks, mailfail |-> 0]

InitWith(documents, t, drawn, handed, q) ==
    /\ users = documents
    /\ now = t
    /\ nsecrets = drawn
    /\ pc = [p \in Procs |-> "idle"]
    /\ loc = [p \in Procs |-> NoLoc]
    /\ resp = [p \in Procs |-> NoResp]
    /\ issued = handed
    /\ used = {}
    /\ quota = q

Register(p, requests, salts) ==
    \/ CallRegister(p, requests)
    \/ RegisterFind(p, salts)
    \/ RegisterUpdate(p)
    \/ RegisterInsert(p)
    \/ RegisterReload(p)

VerifyAccount(p) == CallVerify(p) \/ VerifyFind(p) \/ VerifyUpdate(p)

Login(p, requests) == CallLogin(p, requests) \/ LoginFind(p) \/ LoginUpdate(p)

RefreshAccessToken(p) == CallRefresh(p) \/ RefreshFind(p) \/ RefreshPull(p) \/ RefreshPush(p)

Logout(p) == CallLogout(p) \/ LogoutPull(p)

ResendVerification(p) == CallResend(p) \/ ResendFind(p) \/ ResendUpdate(p)

ForgotPassword(p, requests) == CallForgot(p, requests) \/ ForgotFind(p) \/ ForgotUpdate(p)

ResetPassword(p, bodies, salts) ==
    CallReset(p, bodies) \/ ResetFind(p) \/ ResetUpdate(p, salts)

(***************************************************************************)
(* Spec: one e-mail address is registered as a citizen and as an official, *)
(* verified, logged into and refreshed, from an empty collection.          *)
(***************************************************************************)
RegisterRequests ==
    { RegisterRequest(Text_A_x_co, NoText, Password1, "citizen", NoText, NoText),
      RegisterRequest(Text_a_x_co, NoText, Password2, "official", Text_91, Text_org),
      RegisterRequest(Text_b_x_co, NoText, Password1, "official", Text_91, NoText) }

LoginRequests ==
    { LoginRequest(Text_A_x_co, Password1),
      LoginRequest(Text_a_x_co, Password2),
      LoginRequest(Text_b_x_co, Password1),
      LoginRequest(Text_bad, Password1) }

Init == InitWith(<<>>, 0, 0, {}, Quota(MaxRegisters, MaxVerifies, MaxLogins, MaxRefreshes, 0))

Next ==
    \/ Tick
    \/ \E p \in Procs : Register(p, RegisterRequests, {"salt1"})
    \/ \E p \in Procs : VerifyAccount(p)
    \/ \E p \in Procs : Login(p, LoginRequests)
    \/ \E p \in Procs : RefreshAccessToken(p)

Spec == Init /\ [][Next]_vars

(***************************************************************************)
(* SpecSession: the sessions of one verified citizen account that has      *)
(* logged in once in each of the seconds 1..EarlierLogins, the last of     *)
(* them the current second (the state register, verify_account and those   *)
(* logins leave behind): logins, refreshes and logouts from there.  The    *)
(* clients of the first and of the last of these sessions are still there. *)
(***************************************************************************)
EarlierLogins == 4

SessionAt(t) == [token |-> create_refresh_token(1, t), createdAt |-> t]

VerifiedCitizen ==
    LET data == sanitize_user_data(
                    RegisterRequest(Text_A_x_co, NoText, Password1, "citizen", NoText, NoText))
        doc == NewUser(data, hash_password(data.password, "salt1"),
                       generate_verification_token(0, 0))
    IN  [doc EXCEPT !.isVerified = TRUE,
                    !.verificationToken = NoSecret,
                    !.verificationTokenExpires = NoTime,
                    !.refreshTokens = [t \in 1..EarlierLogins |-> SessionAt(t)],
                    !.lastLogin = EarlierLogins]

SessionLoginRequests ==
    { LoginRequest(Text_A_x_co, Password1), LoginRequest(Text_a_x_co, Password2) }

InitSession ==
    InitWith(<<VerifiedCitizen>>, EarlierLogins, 1,
             UNION {{create_refresh_token(1, t), create_access_token(1, "citizen", t)} :
                        t \in {1, EarlierLogins}},
             Quota(0, 0, SessionLogins, SessionRefreshes, SessionLogouts))

NextSession ==
    \/ Tick
    \/ \E p \in Procs : Login(p, SessionLoginRequests)
    \/ \E p \in Procs : RefreshAccessToken(p)
    \/ \E p \in Procs : Logout(p)

SpecSession == InitSession /\ [][NextSession]_vars

(***************************************************************************)
(* SpecConflict: registrations against a collection that holds a verified  *)
(* account (a@x.co, no phone) and an unverified one (b@x.co, +91), the     *)
(* state two registrations and one verification leave behind.              *)
(***************************************************************************)
VerifiedAccount ==
    [VerifiedCitizen EXCEPT !.refreshTokens = <<>>, !.lastLogin = NoTime]

UnverifiedAccount ==
    LET data == sanitize_user_data(
                    RegisterRequest(Text_b_x_co, Text_9_1, Password1, "citizen", NoText, NoText))
    IN  NewUser(data, hash_password(data.password, "salt1"),
                generate_verification_token(1, 0))

ConflictRequests ==
    { RegisterRequest(Text_a_x_co, NoText, Password2, "citizen", NoText, NoText),
      RegisterRequest(Text_b_x_co, NoText, Password2, "citizen", NoText, NoText),
      RegisterRequest(Text_A_x_co, Text_9_1, Password2, "citizen", NoText, NoText),
      RegisterRequest(Text_c_x_co, NoText, Password2, "citizen", NoText, NoText) }

InitConflict ==
    InitWith(<<VerifiedAccount, UnverifiedAccount>>, 0, 2, {},
             Quota(ConflictRegisters, ConflictVerifies, 0, 0, 0))

NextConflict ==
    \/ Tick
    \/ \E p \in Procs : Register(p, ConflictRequests, {"salt1"})
    \/ \E p \in Procs : VerifyAccount(p)

SpecConflict == InitConflict /\ [][NextConflict]_vars

(***************************************************************************)
(* SpecVerify: verification of two registered, unverified accounts         *)
(* (a@x.co with verification token 1, b@x.co with token 2), with the       *)
(* first one registered again, a third one registered, and verification   *)
(* mails sent again.                                                       *)
(***************************************************************************)
UnverifiedCitizen ==
    LET data == sanitize_user_data(
                    RegisterRequest(Text_A_x_co, NoText, Password1, "citizen", NoText, NoText))
    IN  NewUser(data, hash_password(data.password, "salt1"),
                generate_verification_token(0, 0))

VerifyRegisterRequests ==
    { RegisterRequest(Text_a_x_co, NoText, Password2, "citizen", NoText, NoText),
      RegisterRequest(Text_c_x_co, NoText, Password2, "citizen", NoText, NoText) }

InitVerify ==
    InitWith(<<UnverifiedCitizen, UnverifiedAccount>>, 0, 2, {},
             Quota(VerifyRegisters, VerifyVerifies, 0, 0, 0) @@ [resend |-> VerifyResends])

NextVerify ==
    \/ Tick
    \/ \E p \in Procs : Register(p, VerifyRegisterRequests, {"salt1"})
    \/ \E p \in Procs : VerifyAccount(p)
    \/ \E p \in Procs : ResendVerification(p)

SpecVerify == InitVerify /\ [][NextVerify]_vars

(***************************************************************************)
(* SpecReset: password resets of a verified account (a@x.co, password      *)
(* Password1) and an unverified one (b@x.co, +91), with logins into the    *)
(* first.                                                                  *)
(***************************************************************************)
ForgotRequests ==
    { ForgotRequest(Text_a_x_co), ForgotRequest(Text_c_x_co),
      ForgotRequest(Text_9_1), ForgotRequest(Text_92), ForgotRequest(Text_bad) }

ResetBodies ==
    { <<Password1, Password1>>, <<Password2, Password2>>,
      <<PasswordShort, PasswordShort>>, <<Password2, Password1>> }

ResetLoginRequests ==
    { LoginRequest(Text_a_x_co, Password1), LoginRequest(Text_a_x_co, Password2) }

InitReset ==
    InitWith(<<VerifiedAccount, UnverifiedAccount>>, 0, 2, {},
             Quota(0, 0, ResetLogins, 0, 0)
                 @@ [forgot |-> ResetForgots, reset |-> ResetResets])

NextReset ==
    \/ Tick
    \/ \E p \in Procs : ForgotPassword(p, ForgotRequests)
    \/ \E p \in Procs : ResetPassword(p, ResetBodies, {"salt2"})
    \/ \E p \in Procs : Login(p, ResetLoginRequests)

SpecReset == InitReset /\ [][NextReset]_vars

(***************************************************************************)
(* SpecToken: the tokens one verified citizen account and a guest are      *)
(* handed, and verify_token on whatever a client presents.                 *)
(***************************************************************************)
InitToken ==
    InitWith(<<VerifiedAccount>>, 0, 1, {},
             Quota(0, 0, TokenLogins, 0, 0)
                 @@ [guest |-> TokenGuests, check |-> TokenChecks])

NextToken ==
    \/ Tick
    \/ \E p \in Procs : Login(p, SessionLoginRequests)
    \/ \E p \in Procs : GuestLogin(p)
    \/ \E p \in Procs : VerifyToken(p)

SpecToken == InitToken /\ [][NextToken]_vars

(***************************************************************************)
(* SpecGuard: the protected routes and /refresh, with whatever a client    *)
(* can put into the Authorization header or the cookie.  The collection    *)
(* holds the verified citizen with its sessions, the unverified account,   *)
(* an official the administrator has approved and one still waiting; the   *)
(* clients hold access tokens issued in second 4 for these accounts and    *)
(* for one the administrator has removed since, and the citizen's newest   *)
(* refresh token.                                                          *)
(***************************************************************************)
GuardAccounts ==
    LET official == [VerifiedAccount EXCEPT !.email = Text_c_x_co, !.role = "official",
                                            !.officialId = Text_91]
    IN  << VerifiedCitizen, UnverifiedAccount,
           [official EXCEPT !.isOfficialVerified = TRUE],
           [official EXCEPT !.email = <<"d", "@", "x", ".", "c", "o">>] >>

GuardStrings ==
    LET guests == {s \in issued : s.type = "guest"}
    IN  issued \cup {guest_(s) : s \in guests} \cup {ForgedToken, MalformedToken}

InitGuard ==
    InitWith(GuardAccounts, EarlierLogins, 2,
             {create_access_token(id, IF id \in {3, 4} THEN "official" ELSE "citizen",
                                  EarlierLogins) : id \in 1..5}
                 \cup {create_refresh_token(1, EarlierLogins)},
             Quota(0, 0, 0, GuardRefreshes, 0)
                 @@ [guest |-> GuardGuests, check |-> GuardChecks])

NextGuard ==
    \/ Tick
    \/ \E p \in Procs : GuestLogin(p)
    \/ \E p \in Procs : GetProfile(p, GuardStrings)
    \/ \E p \in Procs : CreateAlert(p, GuardStrings)
    \/ \E p \in Procs : CreateReport(p, GuardStrings)
    \/ \E p \in Procs : \/ CallRefreshWith(p, GuardStrings \cup {NoToken})
                         \/ RefreshFind(p)
                         \/ RefreshPull(p)
                         \/ RefreshPush(p)

SpecGuard == InitGuard /\ [][NextGuard]_vars

(***************************************************************************)
(* SpecMail: an account from its registration to its first login, beside   *)
(* the two unverified accounts of SpecVerify, with a mail collaborator     *)
(* that fails up to MailFailures times.                                    *)
(***************************************************************************)
InitMail ==
    InitWith(<<UnverifiedCitizen, UnverifiedAccount>>, 0, 2, {},
             [mailfail |-> MailFailures, resend |-> 1]
                 @@ Quota(1, MailVerifies, MailLogins, 0, 0))

NextMail ==
    \/ \E p \in Procs : Register(p, VerifyRegisterRequests, {"salt1"})
    \/ \E p \in Procs : VerifyAccount(p)
    \/ \E p \in Procs : ResendVerification(p)
    \/ \E p \in Procs : Login(p, {LoginRequest(Text_c_x_co, Password2),
                                    LoginRequest(Text_c_x_co, Password1)})

SpecMail == InitMail /\ [][NextMail]_vars

(***************************************************************************)
(* SpecCalls: calls of hash_password, verify_password and                  *)
(* validate_credential on their own, with passwords around the limit of    *)
(* bcrypt and credentials of every shape.  verify_password is given a hash *)
(* that hash_password returned; the call on record keeps the password that *)
(* was hashed.                                                             *)
(***************************************************************************)
PasswordInputs ==
    LET Ones(n) == [i \in 1..n |-> 1]
        Suffixes == UNION {[1..n -> {1, 2}] : n \in 0..MaxSuffix}
    IN  {PasswordShort, Password1, Password2}
            \cup {Ones(n) \o s : n \in (BCRYPT_MAX_BYTES - AroundLimit)
                                         ..(BCRYPT_MAX_BYTES + AroundLimit),
                                 s \in Suffixes}

CredentialInputs ==
    {Text_a_x_co, Text_A_x_co, <<" ">> \o Text_A_x_co \o <<" ">>,
     Text_91, Text_9_1, <<"+">> \o Text_91, <<" ", "(", "9", ")", " ", "2">>,
     <<"0", "1">>, <<"9">>, Text_bad, <<"9", "@", "1">>, <<>>}

HashPassword(p) ==
    /\ \E password \in PasswordInputs, salt \in {"salt1", "salt2"} :
           resp' = [resp EXCEPT ![p] =
                       [req |-> [op |-> "hash_password", password |-> password],
                        hash |-> hash_password(password, salt)]]
    /\ UNCHANGED <<users, now, nsecrets, issued, used, quota, pc, loc>>

VerifyPassword(p) ==
    /\ \E plain_password \in PasswordInputs, q \in Procs :
           /\ resp[q].req.op = "hash_password"
           /\ resp' = [resp EXCEPT ![p] =
                          [req |-> [op |-> "verify_password",
                                    plain_password |-> plain_password,
                                    hashed_password |-> resp[q].hash,
                                    password |-> resp[q].req.password],
                           result |-> verify_password(plain_password, resp[q].hash)]]
    /\ UNCHANGED <<users, now, nsecrets, issued, used, quota, pc, loc>>

ValidateCredential(p) ==
    /\ \E credential \in CredentialInputs :
           resp' = [resp EXCEPT ![p] =
                       [req |-> [op |-> "validate_credential", credential |-> credential],
                        result |-> validate_credential(credential)]]
    /\ UNCHANGED <<users, now, nsecrets, issued, used, quota, pc, loc>>

InitCalls == InitWith(<<>>, 0, 0, {}, Quota(0, 0, 0, 0, 0))

NextCalls ==
    \/ \E p \in Procs : HashPassword(p)
    \/ \E p \in Procs : VerifyPassword(p)
    \/ \E p \in Procs : ValidateCredential(p)

SpecCalls == InitCalls /\ [][NextCalls]_vars

(***************************************************************************)
(* SpecResetSession: the verified account of SpecSession with its four     *)
(* sessions; its password is reset while its refresh tokens are exchanged. *)
(***************************************************************************)
InitResetSession ==
    InitWith(<<VerifiedCitizen>>, EarlierLogins, 1,
             UNION {{create_refresh_token(1, t), create_access_token(1, "citizen", t)} :
                        t \in {1, EarlierLogins}},
             Quota(0, 0, 0, ResetSessionRefreshes, 0)
                 @@ [forgot |-> ResetSessionForgots, reset |-> ResetSessionResets])

NextResetSession ==
    \/ \E p \in Procs : ForgotPassword(p, {ForgotRequest(Text_a_x_co)})
    \/ \E p \in Procs : ResetPassword(p, {<<Password2, Password2>>}, {"salt2"})
    \/ \E p \in Procs : RefreshAccessToken(p)

SpecResetSession == InitResetSession /\ [][NextResetSession]_vars

(***************************************************************************)
(* Properties of the sessions (SpecSession).                               *)
(***************************************************************************)
IsRefresh(r) == r.req.op = "refresh"
IsLogin(r) == r.req.op = "login"
IssuesNothing(r) == r.accessToken = NoToken /\ r.cookie = NoToken
Sessions(id) == users[id].refreshTokens

\* C1: a /refresh that presents a token some completed /refresh has already
\* exchanged fails with 401 and issues no tokens.
C1_UsedRefreshTokenFails ==
    \A p \in Procs :
        IsRefresh(resp[p]) /\ resp[p].req.replay
            => resp[p].status = 401 /\ IssuesNothing(resp[p])

\* C2: of two /refresh requests that present the same token and overlap in
\* time (neither arrived after a /refresh of that token had completed), at
\* most one succeeds.
C2_ConcurrentSameTokenAtMostOneSucceeds ==
    \A p, q \in Procs :
        /\ p # q
        /\ IsRefresh(resp[p]) /\ IsRefresh(resp[q])
        /\ resp[p].req.cookie = resp[q].req.cookie
        /\ ~resp[p].req.replay /\ ~resp[q].req.replay
        => ~(resp[p].status = 200 /\ resp[q].status = 200)

\* C3: two overlapping /refresh requests that present different unexpired
\* tokens of the same account's list, with no other request served in the
\* run, both succeed, and when both have finished the list holds both new
\* refresh tokens and neither of the presented ones.
C3_ConcurrentDifferentTokensBothSucceed ==
    \A p, q \in Procs :
        /\ p # q
        /\ IsRefresh(resp[p]) /\ IsRefresh(resp[q])
        /\ resp[p].req.cookie # resp[q].req.cookie
        /\ resp[p].req.cookie.id = resp[q].req.cookie.id
        /\ resp[p].req.listed /\ resp[q].req.listed
        /\ verify_token(resp[p].req.cookie, "refresh", now).ok
        /\ verify_token(resp[q].req.cookie, "refresh", now).ok
        /\ (p \in resp[q].req.peers \/ q \in resp[p].req.peers)
        /\ quota.login = SessionLogins /\ quota.logout = SessionLogouts
        /\ quota.refresh = SessionRefreshes - 2
        => /\ resp[p].status = 200 /\ resp[q].status = 200
           /\ LET list == Sessions(resp[p].req.cookie.id)
                  Listed(t) == \E i \in 1..Len(list) : list[i].token = t
              IN  /\ Listed(resp[p].cookie) /\ Listed(resp[q].cookie)
                  /\ ~Listed(resp[p].req.cookie) /\ ~Listed(resp[q].req.cookie)

\* C4: an account's refresh-token list never holds more than 5 entries.
C4_AtMostFiveSessions == \A id \in UserIds : Len(Sessions(id)) <= 5

\* a login has filled the list and pushed the oldest session out of it: no
\* refresh and no logout has removed anything
C4_Witness ==
    /\ used = {} /\ quota.logout = SessionLogouts /\ quota.refresh = SessionRefreshes
    /\ \E p \in Procs : IsLogin(resp[p]) /\ resp[p].status = 200
    /\ Len(Sessions(1)) = 5
    /\ ~HasToken(users[1], SessionAt(1).token)

\* C5: a /refresh whose token is correctly signed and unexpired but is not in
\* the owning account's list is answered 401, issues no token and writes
\* nothing.
C5_UnlistedTokenRejected ==
    [][\A p \in Procs :
         (/\ pc[p] = "refresh_find"
          /\ LET c == loc[p].req.cookie
             IN  /\ c # NoToken
                 /\ verify_token(c, "refresh", now).ok
                 /\ c.id \in UserIds
                 /\ ~HasToken(users[c.id], c))
         => \/ pc'[p] = "refresh_find"
            \/ /\ pc'[p] = "idle"
               /\ resp'[p].status = 401
               /\ IssuesNothing(resp'[p])
               /\ users' = users
               /\ issued' = issued]_vars

\* a token that later logins pushed out of the list was presented and refused
C5_Witness ==
    \E p \in Procs :
        /\ IsRefresh(resp[p])
        /\ resp[p].status = 401
        /\ resp[p].detail = "401: Invalid refresh token"
        /\ resp[p].req.cookie = SessionAt(1).token
        /\ verify_token(resp[p].req.cookie, "refresh", now).ok
        /\ quota.logout = SessionLogouts
        /\ used = {}

(***************************************************************************)
(* Properties of registration, verification and login (Spec, SpecConflict).*)
(***************************************************************************)
IsRegister(r) == r.req.op = "register"
Replies(p) == pc[p] # "idle" /\ pc'[p] = "idle"
Unapproved(user) == user.role = "official" /\ ~user.isOfficialVerified
ApprovalPending ==
    "Your official account is pending verification. Please contact your administrator."

\* what a client can tell from a response
Visible(r) ==
    [status |-> r.status, detail |-> r.detail, userId |-> r.userId, user |-> r.user,
     accessToken |-> r.accessToken, cookie |-> r.cookie]

\* the /login request p is about to look up has a well-formed credential, the
\* collection holds one document for it, id, and the password is id's
LoginOn(p, id) ==
    /\ pc[p] = "login_find"
    /\ LET req == loc[p].req
           cv == validate_credential(req.credential)
       IN  /\ cv.isValid
           /\ login_query(req.credential, cv) = {id}
           /\ verify_password(req.password, users[id].password)

\* C6: no response hands out an access or refresh token of an account that
\* is, at that moment, an official one without isOfficialVerified.
C6_NoTokensForUnapprovedOfficial ==
    [][\A p \in Procs :
         Replies(p) /\ ~IssuesNothing(resp'[p])
             => ~Unapproved(users'[resp'[p].accessToken.id])]_vars

\* C7: a /login with the right password on a verified official account that
\* is not approved is answered 403 (approval pending), hands out no token and
\* no cookie, and leaves the account's refresh-token list and lastLogin alone.
C7_UnapprovedOfficialLoginRefused ==
    [][\A p \in Procs : \A id \in UserIds :
         (/\ LoginOn(p, id)
          /\ users[id].isVerified /\ Unapproved(users[id])
          /\ pc'[p] # pc[p])
         => /\ pc'[p] = "idle"
            /\ resp'[p].status = 403
            /\ resp'[p].detail = ApprovalPending
            /\ IssuesNothing(resp'[p])
            /\ issued' = issued
            /\ users'[id].refreshTokens = users[id].refreshTokens
            /\ users'[id].lastLogin = users[id].lastLogin]_vars

\* an official account was registered and verified, and its login was refused
C7_Witness ==
    \E p \in Procs :
        /\ IsLogin(resp[p])
        /\ resp[p].req.found \in UserIds /\ resp[p].req.passwordOk
        /\ users[resp[p].req.found].isVerified
        /\ Unapproved(users[resp[p].req.found])
        /\ resp[p].status = 403 /\ resp[p].detail = ApprovalPending
        /\ issued = {}

\* C8: a /login with the right password on an account that is not verified
\* is answered 403 (verification required) with the account's id, hands out
\* no token, and leaves the account's refresh-token list and lastLogin alone.
C8_UnverifiedLoginRefusedWithId ==
    [][\A p \in Procs : \A id \in UserIds :
         (/\ LoginOn(p, id)
          /\ ~users[id].isVerified
          /\ pc'[p] # pc[p])
         => /\ pc'[p] = "idle"
            /\ resp'[p].status = 403
            /\ resp'[p].detail = "Please verify your account first"
            /\ resp'[p].userId = id
            /\ IssuesNothing(resp'[p])
            /\ issued' = issued
            /\ users'[id].refreshTokens = users[id].refreshTokens
            /\ users'[id].lastLogin = users[id].lastLogin]_vars

\* a registered account was logged into before it was verified
C8_Witness ==
    \E p \in Procs :
        /\ IsLogin(resp[p])
        /\ resp[p].req.found \in UserIds /\ resp[p].req.passwordOk
        /\ ~users[resp[p].req.found].isVerified
        /\ resp[p].status = 403 /\ resp[p].userId = resp[p].req.found

\* C9: a /login with a well-formed credential that matched no account and a
\* /login that matched an account but had the wrong password are answered
\* alike: 401, and nothing a client sees differs.
C9_NoAccountAndWrongPasswordAlike ==
    \A p, q \in Procs :
        /\ IsLogin(resp[p]) /\ IsLogin(resp[q])
        /\ validate_credential(resp[p].req.credential).isValid
        /\ resp[p].req.found = NoUser
        /\ resp[q].req.found # NoUser /\ ~resp[q].req.passwordOk
        => /\ resp[p].status = 401 /\ resp[q].status = 401
           /\ Visible(resp[p]) = Visible(resp[q])

\* the same credential and password were refused before the address was
\* registered and after it was registered with another password
C9_Witness ==
    \E p, q \in Procs :
        /\ IsLogin(resp[p]) /\ IsLogin(resp[q])
        /\ resp[p].req.credential = resp[q].req.credential
        /\ resp[p].req.password = resp[q].req.password
        /\ resp[p].req.found = NoUser /\ resp[p].status = 401
        /\ resp[q].req.found # NoUser /\ ~resp[q].req.passwordOk /\ resp[q].status = 401

\* C10: a valid /register whose e-mail address belonged to an account when
\* the handler looked: if that account was not verified, the request
\* succeeds on that account (same id), adds no document and gives the
\* account a verification token it did not have; if it was verified, the
\* request is answered 400 (user already exists) and writes nothing.
C10_ReRegistration ==
    [][\A p \in Procs :
         /\ (Replies(p) /\ IsRegister(resp'[p])
                /\ resp'[p].req.valid /\ resp'[p].req.owner # NoUser)
            => IF resp'[p].req.ownerVerified
               THEN /\ resp'[p].status = 400
                    /\ resp'[p].detail = "User already exists with this email or phone"
               ELSE /\ resp'[p].status = 200
                    /\ resp'[p].userId = resp'[p].req.owner
         /\ (pc[p] \in {"reg_update", "reg_insert", "reg_reload"}
                /\ pc'[p] # pc[p] /\ loc[p].req.owner # NoUser)
            => /\ Len(users') = Len(users)
               /\ loc[p].req.ownerVerified => users' = users
               /\ (~loc[p].req.ownerVerified /\ pc[p] = "reg_update")
                      => LET o == loc[p].req.owner
                         IN  /\ users'[o].verificationToken # NoSecret
                             /\ users'[o].verificationToken # users[o].verificationToken]_vars

(***************************************************************************)
(* Properties of verification (SpecVerify).                                *)
(***************************************************************************)
IsVerify(r) == r.req.op = "verify"
IsResend(r) == r.req.op = "resend"

\* the supplied token is the one stored on the account and has not expired
VerifyTokenGood(req) ==
    /\ req.userId \in UserIds
    /\ users[req.userId].verificationToken = req.token
    /\ ~(users[req.userId].verificationTokenExpires < now)

\* C11: /verify goes on to its write exactly when the token supplied is the
\* one stored on the account and has not expired; otherwise it is answered
\* 400 and no account changes; its write sets isVerified, removes the token
\* and its expiry, and is answered 200.
C11_VerifyExactlyOnCurrentToken ==
    [][\A p \in Procs :
         /\ (pc[p] = "verify_find" /\ pc'[p] # pc[p])
            => IF VerifyTokenGood(loc[p].req)
               THEN pc'[p] = "verify_update" /\ users' = users
               ELSE /\ pc'[p] = "idle"
                    /\ resp'[p].status = 400
                    /\ users' = users
         /\ (pc[p] = "verify_update" /\ pc'[p] # pc[p])
            => /\ pc'[p] = "idle"
               /\ resp'[p].status = 200
               /\ users'[loc[p].id].isVerified
               /\ users'[loc[p].id].verificationToken = NoSecret
               /\ users'[loc[p].id].verificationTokenExpires = NoTime]_vars

\* one account was verified with its token, and a verification of the other
\* with its own token was refused because the token had expired
C11_Witness ==
    \E p, q \in Procs :
        /\ IsVerify(resp[p]) /\ resp[p].status = 200
        /\ users[resp[p].req.userId].isVerified
        /\ users[resp[p].req.userId].verificationToken = NoSecret
        /\ IsVerify(resp[q]) /\ resp[q].status = 400
        /\ resp[q].detail = "Verification token has expired"
        /\ users[resp[q].req.userId].verificationToken = resp[q].req.token
        /\ ~users[resp[q].req.userId].isVerified

\* C12: with one /verify in the run, interleaved with /register and
\* /verify/resend requests, the write of /verify sets isVerified only on an
\* account whose stored verification token is, at that moment, the token
\* supplied.
C12_VerifyWritesOnlyOnMatchingToken ==
    [][\A p \in Procs :
         (/\ pc[p] = "verify_update" /\ pc'[p] # pc[p]
          /\ quota.verify = VerifyVerifies - 1)
         => users[loc[p].id].verificationToken = loc[p].req.token]_vars

\* the token of /verify request req is the stored, unexpired verification
\* token of account b, which is not the account the request names, and the
\* account it names exists and does not hold that token
TokenOfAnother(req, b) ==
    /\ req.userId \in UserIds /\ b \in UserIds /\ b # req.userId
    /\ users[b].verificationToken = req.token
    /\ ~(users[b].verificationTokenExpires < now)
    /\ users[req.userId].verificationToken # req.token

\* C13: a /verify that names account A and supplies the current, unexpired
\* verification token of another account B is answered 400 and changes
\* neither account.
C13_TokenOfAnotherAccountRefused ==
    [][\A p \in Procs : \A b \in UserIds :
         (/\ pc[p] = "verify_find" /\ pc'[p] # pc[p]
          /\ TokenOfAnother(loc[p].req, b))
         => /\ pc'[p] = "idle"
            /\ resp'[p].status = 400
            /\ users' = users]_vars

\* the token of the unverified account 2 was supplied for the unverified
\* account 1 and refused; account 2 still holds it
C13_Witness ==
    \E p \in Procs : \E b \in UserIds :
        /\ IsVerify(resp[p]) /\ resp[p].status = 400
        /\ TokenOfAnother(resp[p].req, b)
        /\ ~users[resp[p].req.userId].isVerified
        /\ users[resp[p].req.userId].verificationToken # NoSecret
        /\ ~users[b].isVerified

\* C14: an account whose isVerified is true holds no verification token and
\* no verification-token expiry.
C14_VerifiedHoldsNoToken ==
    \A id \in UserIds :
        users[id].isVerified
            => /\ users[id].verificationToken = NoSecret
               /\ users[id].verificationTokenExpires = NoTime

\* a /verify/resend for account id has completed and replaced token previous
\* by token fresh
Resent(id, previous, fresh) ==
    \E q \in Procs :
        /\ IsResend(resp[q]) /\ resp[q].status = 200
        /\ resp[q].req.userId = id
        /\ resp[q].req.previous = previous
        /\ resp[q].req.fresh = fresh

\* C15: /verify/resend on a verified account is answered 400 (already
\* verified) and writes nothing; on an unverified account its write replaces
\* the stored verification token by a newly generated one, with an expiry
\* at most 24 hours ahead.  Once it
\* has completed, a /verify with the token it replaced is answered 400 and
\* changes nothing, and a /verify with the token it stored, while that is
\* the stored token and unexpired, goes on to verify the account.
C15_ResendRotatesToken ==
    [][\A p \in Procs :
         /\ (/\ pc[p] = "resend_find" /\ pc'[p] # pc[p]
             /\ loc[p].req.userId \in UserIds
             /\ users[loc[p].req.userId].isVerified)
            => /\ pc'[p] = "idle"
               /\ resp'[p].status = 400
               /\ resp'[p].detail = "Account is already verified"
               /\ users' = users
         /\ (/\ pc[p] = "resend_find" /\ pc'[p] # pc[p]
             /\ loc[p].req.userId \in UserIds
             /\ ~users[loc[p].req.userId].isVerified)
            => pc'[p] = "resend_update"
         /\ (pc[p] = "resend_update" /\ pc'[p] # pc[p])
            => LET id == loc[p].id
               IN  /\ pc'[p] = "idle" /\ resp'[p].status = 200
                   /\ users'[id].verificationToken # NoSecret
                   /\ users'[id].verificationToken # users[id].verificationToken
                   /\ users'[id].verificationTokenExpires # NoTime
                   /\ users'[id].verificationTokenExpires
                          <= now + VERIFICATION_HOURS * SecondsPerHour
         /\ (/\ pc[p] = "verify_find" /\ pc'[p] # pc[p]
             /\ \E fresh \in 1..nsecrets :
                    Resent(loc[p].req.userId, loc[p].req.token, fresh))
            => /\ pc'[p] = "idle"
               /\ resp'[p].status = 400
               /\ users' = users
         /\ (/\ pc[p] = "verify_find" /\ pc'[p] # pc[p]
             /\ \E previous \in 1..nsecrets :
                    Resent(loc[p].req.userId, previous, loc[p].req.token)
             /\ VerifyTokenGood(loc[p].req))
            => pc'[p] = "verify_update"]_vars

\* a resend replaced token 1 of account 1; afterwards the old token was
\* refused and the new one verified the account
C15_Witness ==
    \E p, q \in Procs :
        /\ IsResend(resp[q]) /\ resp[q].status = 200
        /\ IsVerify(resp[p]) /\ resp[p].status = 200
        /\ resp[p].req.userId = resp[q].req.userId
        /\ resp[p].req.token = resp[q].req.fresh
        /\ resp[q].req.previous # NoSecret
        /\ users[resp[p].req.userId].isVerified
        /\ quota.verify = 0 /\ quota.register = VerifyRegisters

(***************************************************************************)
(* Properties of the password reset (SpecReset).                           *)
(***************************************************************************)
IsForgot(r) == r.req.op = "forgot"
IsReset(r) == r.req.op = "reset"
KindOf(r) == validate_credential(r.req.credential).type

\* C16: two /forgot-password responses for well-formed credentials of the
\* same kind (two e-mail addresses, two phone numbers) are the same
\* response, status 200 with the same message and nothing else, whether
\* find_one returned an account or not.
C16_ForgotTellsNothing ==
    \A p, q \in Procs :
        (/\ IsForgot(resp[p]) /\ IsForgot(resp[q])
         /\ KindOf(resp[p]) # "none"
         /\ KindOf(resp[p]) = KindOf(resp[q]))
            => /\ resp[p].status = 200
               /\ Visible(resp[p]) = Visible(resp[q])

\* one answered request named an account, the other one, of the same kind,
\* did not
C16_Witness ==
    \E p, q \in Procs :
        /\ IsForgot(resp[p]) /\ IsForgot(resp[q])
        /\ KindOf(resp[p]) = "phone" /\ KindOf(resp[q]) = "phone"
        /\ resp[p].req.found # NoUser
        /\ users[resp[p].req.found].passwordResetToken # NoSecret
        /\ resp[q].req.found = NoUser

\* the passwords clients use
Passwords == {Password1, Password2}

\* the account that holds a reset token (NoUser: none) and whether the
\* token's expiry has passed
HolderOf(token) ==
    IF reset_query(token) = {} THEN NoUser ELSE CHOOSE id \in reset_query(token) : TRUE
ResetExpired(id) ==
    users[id].passwordResetExpires # NoTime /\ users[id].passwordResetExpires < now

\* /reset-password is refused with 400 and writes nothing when no account
\* holds the token or its expiry has passed; otherwise it goes on to its write
ResetRefusesBadToken(p) ==
    (/\ pc[p] = "reset_find" /\ pc'[p] # pc[p]
     /\ ResetPasswordRequest(loc[p].req))
        => LET id == HolderOf(loc[p].req.token)
           IN  IF id = NoUser \/ ResetExpired(id)
               THEN /\ pc'[p] = "idle"
                    /\ resp'[p].status = 400
                    /\ users' = users
               ELSE /\ pc'[p] = "reset_update"
                    /\ loc'[p].id = id

\* the write of /reset-password stores a hash of the new password, which
\* that password verifies against, and removes the reset token and its expiry
ResetStoresNewPassword(p) ==
    (pc[p] = "reset_update" /\ pc'[p] # pc[p])
        => LET id == loc[p].id
               new == loc[p].req.password
           IN  /\ pc'[p] = "idle" /\ resp'[p].status = 200
               /\ verify_password(new, users'[id].password)
               /\ users'[id].passwordResetToken = NoSecret
               /\ users'[id].passwordResetExpires = NoTime
               /\ \A other \in UserIds \ {id} : users'[other] = users[other]

\* a /reset-password with the token of a /reset-password that has succeeded
\* is refused and writes nothing
ResetTokenSingleUse(p) ==
    (/\ pc[p] = "reset_find" /\ pc'[p] # pc[p]
     /\ \E q \in Procs : /\ IsReset(resp[q]) /\ resp[q].status = 200
                         /\ resp[q].req.token = loc[p].req.token)
        => /\ pc'[p] = "idle"
           /\ resp'[p].status \in {400, 422}
           /\ users' = users

\* /login goes by the stored hash: it accepts the password that verifies
\* against the hash of a verified account, and answers 401 to any other
LoginFollowsStoredHash(p) ==
    \A id \in UserIds :
        (/\ pc[p] = "login_find" /\ pc'[p] # pc[p]
         /\ validate_credential(loc[p].req.credential).isValid
         /\ login_query(loc[p].req.credential,
                        validate_credential(loc[p].req.credential)) = {id})
            => IF verify_password(loc[p].req.password, users[id].password)
               THEN (users[id].isVerified /\ ~Unapproved(users[id]))
                        => pc'[p] = "login_update"
               ELSE pc'[p] = "idle" /\ resp'[p].status = 401

\* after the write of /reset-password, the stored hash refuses every
\* password the account accepted before (differs: only passwords the hash
\* can tell from the new one)
ResetRejectsOldPassword(p, differs) ==
    (pc[p] = "reset_update" /\ pc'[p] # pc[p])
        => LET id == loc[p].id
               new == loc[p].req.password
           IN  \A old \in Passwords :
                   (/\ verify_password(old, users[id].password)
                    /\ differs => Truncate(old) # Truncate(new))
                       => ~verify_password(old, users'[id].password)

\* C17 (as amended): /reset-password is refused and changes nothing when no
\* account holds the token or the token's expiry has passed; otherwise it
\* stores the hash of the new password and removes the reset token and its
\* expiry, after which /login accepts the new password, refuses the old
\* password when that differs from the new one within bcrypt's 72 bytes, and
\* a second /reset-password with the same token is refused.
C17_ResetPassword ==
    [][\A p \in Procs :
         /\ ResetRefusesBadToken(p)
         /\ ResetStoresNewPassword(p)
         /\ ResetTokenSingleUse(p)
         /\ LoginFollowsStoredHash(p)
         /\ ResetRejectsOldPassword(p, TRUE)]_vars

\* account 1 was reset from Password1 to Password2 and logged into with
\* Password2; the token was then presented again and refused
C17_Witness ==
    \E p, q \in Procs :
        /\ resp[p].req.op = "login" /\ resp[p].status = 200
        /\ resp[p].req.password = Password2
        /\ IsReset(resp[q]) /\ resp[q].status = 400
        /\ resp[q].req.token > 2 /\ HolderOf(resp[q].req.token) = NoUser
        /\ ~verify_password(Password1, users[1].password)
        /\ users[1].passwordResetToken = NoSecret
        /\ quota.reset = 0

\* C17 as stated: the same, with the old password refused whatever the new
\* password is.
C17_AsStated ==
    [][\A p \in Procs :
         /\ ResetRefusesBadToken(p)
         /\ ResetStoresNewPassword(p)
         /\ ResetTokenSingleUse(p)
         /\ LoginFollowsStoredHash(p)
         /\ ResetRejectsOldPassword(p, FALSE)]_vars

(***************************************************************************)
(* Properties of logout (SpecSession).                                     *)
(***************************************************************************)
\* list with the entry at position i taken out (i = 0: list itself)
Without(list, i) ==
    [j \in 1..(Len(list) - (IF i = 0 THEN 0 ELSE 1)) |->
        IF i = 0 \/ j < i THEN list[j] ELSE list[j + 1]]

ValidCookie(c) ==
    c # NoToken /\ verify_token(c, "refresh", now).ok /\ c.id \in UserIds

\* C18: /logout always answers 200 "Logout successful".  With a cookie that
\* verifies as a refresh token of an account it leaves no entry with that
\* token in the account's list, takes out no more than the one entry of the
\* session and changes nothing else; with any other cookie (none, forged,
\* expired) it changes no account.
C18_LogoutRemovesOnlyItsEntry ==
    [][\A p \in Procs :
         (pc[p] = "logout_pull" /\ pc'[p] # pc[p])
            => LET c == loc[p].req.cookie
               IN  /\ pc'[p] = "idle"
                   /\ resp'[p].status = 200
                   /\ resp'[p].detail = "Logout successful"
                   /\ IF ValidCookie(c)
                      THEN /\ ~HasToken(users'[c.id], c)
                           /\ \E i \in 0..Len(Sessions(c.id)) :
                                  users'[c.id].refreshTokens = Without(Sessions(c.id), i)
                           /\ \A id \in UserIds \ {c.id} : users'[id] = users[id]
                      ELSE users' = users]_vars

(***************************************************************************)
(* Properties of token verification (SpecToken).                           *)
(***************************************************************************)
IsVerifyToken(r) == r.req.op = "verify_token"

\* C19: verify_token for an expected kind accepts only a token the server
\* issued as that kind: an access or guest token is refused as a refresh
\* token, and a refresh or guest token is refused as an access token.
C19_OnlyTheExpectedKind ==
    \A p \in Procs :
        IsVerifyToken(resp[p])
            => /\ resp[p].status = 200
                    => /\ resp[p].req.token \in issued
                       /\ resp[p].req.token.type = resp[p].req.token_type
               /\ resp[p].req.token.type # resp[p].req.token_type
                    => resp[p].status = 401

\* an unexpired guest token was refused as an access token, and an access
\* token was accepted as one
C19_Witness ==
    \E p, q \in Procs :
        /\ IsVerifyToken(resp[p]) /\ IsVerifyToken(resp[q])
        /\ resp[p].req.token \in issued /\ resp[p].req.token.type = "guest"
        /\ resp[p].req.token_type = "access"
        /\ resp[p].req.token.exp >= resp[p].req.t
        /\ resp[p].status = 401
        /\ resp[q].req.token.type = "access" /\ resp[q].req.token_type = "access"
        /\ resp[q].status = 200

\* C20: every failure of verify_token is the same failure, one status and
\* one message, whatever is wrong with the token.
C20_OneGenericFailure ==
    \A p, q \in Procs :
        (/\ IsVerifyToken(resp[p]) /\ resp[p].status # 200
         /\ IsVerifyToken(resp[q]) /\ resp[q].status # 200)
            => /\ resp[p].status = resp[q].status
               /\ resp[p].detail = resp[q].detail

(***************************************************************************)
(* Properties of the protected routes (SpecGuard).                         *)
(***************************************************************************)
IsGuestString(s) == IF "prefix" \in DOMAIN s THEN TRUE ELSE s.type = "guest"
BehindUser(r) == r.req.op \in {"get_profile", "create_alert"}
BehindUserOrGuest(r) == r.req.op = "create_report"
Bearer(r) == r.req.authorization.scheme = "Bearer"

\* C21: a guest token, with or without its guest_ prefix, is refused with
\* 401 by /refresh, which then issues nothing and never gets as far as its
\* writes, and is refused with 401 by the routes behind get_current_user.
C21_GuestTokenIsNoCredential ==
    \A p \in Procs :
        /\ (IsRefresh(resp[p]) /\ IsGuestString(resp[p].req.cookie))
               => resp[p].status = 401 /\ IssuesNothing(resp[p])
        /\ (pc[p] \in RefreshLabels /\ IsGuestString(loc[p].req.cookie))
               => pc[p] = "refresh_find"
        /\ (BehindUser(resp[p]) /\ Bearer(resp[p])
               /\ IsGuestString(resp[p].req.authorization.token))
               => resp[p].status = 401 /\ resp[p].userId = NoUser

\* an unexpired guest token was refused by /refresh and, with its prefix, by
\* a route behind get_current_user
C21_Witness ==
    \E p, q \in Procs :
        /\ IsRefresh(resp[p]) /\ resp[p].status = 401
        /\ resp[p].req.cookie \in issued /\ resp[p].req.cookie.type = "guest"
        /\ resp[p].req.cookie.exp >= now
        /\ BehindUser(resp[q]) /\ Bearer(resp[q]) /\ resp[q].status = 401
        /\ "prefix" \in DOMAIN resp[q].req.authorization.token
        /\ resp[q].req.authorization.token.jwt \in issued

Answered(p) == resp'[p] # resp[p] /\ resp'[p] # NoResp

\* the string is an unexpired guest token guest_login has returned, prefix on
ReturnedByGuestLogin(s, t) ==
    /\ "prefix" \in DOMAIN s
    /\ s.jwt \in issued /\ s.jwt.type = "guest"
    /\ s.jwt.exp >= t

\* C22: /guest always answers 200 with a string that is guest_ followed by a
\* guest token for a session id not drawn before, and changes no account;
\* that string, presented as the bearer token of a route behind
\* get_current_user_or_guest before it expires, gives the guest principal:
\* guest flag set, no account, the session id of the token.
C22_GuestLoginGivesGuestPrincipal ==
    [][\A p \in Procs :
         /\ (Answered(p) /\ resp'[p].req.op = "guest")
                => /\ resp'[p].status = 200
                   /\ resp'[p].accessToken = guest_(resp'[p].accessToken.jwt)
                   /\ resp'[p].accessToken.jwt.type = "guest"
                   /\ resp'[p].accessToken.jwt.jti > nsecrets
                   /\ resp'[p].accessToken.jwt \in issued'
                   /\ users' = users
         /\ (/\ Answered(p) /\ BehindUserOrGuest(resp'[p]) /\ Bearer(resp'[p])
             /\ ReturnedByGuestLogin(resp'[p].req.authorization.token, now))
                => /\ resp'[p].status = 200
                   /\ resp'[p].req.principal.is_guest
                   /\ resp'[p].req.principal.userId = NoUser
                   /\ resp'[p].req.principal.guestId
                          = resp'[p].req.authorization.token.jwt.jti
                   /\ users' = users]_vars

\* a route behind get_current_user_or_guest has served the guest of session 3
C22_Witness ==
    \E p \in Procs :
        /\ BehindUserOrGuest(resp[p]) /\ Bearer(resp[p])
        /\ ReturnedByGuestLogin(resp[p].req.authorization.token, resp[p].req.t)
        /\ resp[p].req.principal.is_guest
        /\ resp[p].req.principal.guestId = 3

\* the header carries an unexpired access token of the server
ValidAccess(a, t) ==
    /\ a.scheme = "Bearer"
    /\ "secret" \in DOMAIN a.token
    /\ a.token.secret = JWT_SECRET /\ a.token.type = "access"
    /\ a.token.exp >= t

\* C23: a route behind get_current_user serves an account exactly when the
\* header carries an unexpired access token whose id names an existing
\* account with isVerified, and serves that account; it answers 401 when
\* the header or token is missing or invalid or the account does not exist,
\* and 403 when the account is not verified.
C23_RequireUser ==
    \A p \in Procs :
        resp[p].req.op = "get_profile"
            => LET a == resp[p].req.authorization
                   valid == ValidAccess(a, resp[p].req.t)
               IN  /\ resp[p].status \in {200, 401, 403}
                   /\ resp[p].status = 200
                         <=> /\ valid
                             /\ a.token.id \in UserIds
                             /\ users[a.token.id].isVerified
                   /\ resp[p].status = 200 => resp[p].userId = a.token.id
                   /\ resp[p].status = 403
                         <=> /\ valid
                             /\ a.token.id \in UserIds
                             /\ ~users[a.token.id].isVerified
                   /\ resp[p].status # 200 => resp[p].userId = NoUser

\* the access token of the unverified account 2 was answered 403
C23_Witness ==
    \E p \in Procs :
        /\ resp[p].req.op = "get_profile" /\ resp[p].status = 403
        /\ ValidAccess(resp[p].req.authorization, resp[p].req.t)
        /\ resp[p].req.authorization.token.id = 2

\* C24: get_current_user_or_guest never fails; it returns an account, guest
\* flag false, exactly when the header carries an unexpired access token of
\* an existing verified account, and that account; for every other header
\* (none, an invalid token, a guest token) it returns a principal with the
\* guest flag set and no account.
C24_RequireUserOrGuest ==
    \A p \in Procs :
        BehindUserOrGuest(resp[p])
            => LET a == resp[p].req.authorization
                   u == resp[p].req.principal
                   account == /\ ValidAccess(a, resp[p].req.t)
                              /\ a.token.id \in UserIds
                              /\ users[a.token.id].isVerified
               IN  /\ u.status = 200
                   /\ ~u.is_guest <=> account
                   /\ account => u.userId = a.token.id /\ u.guestId = NoSecret
                   /\ ~account => u.is_guest /\ u.userId = NoUser

\* the access token of the unverified account 2 gave a guest principal
\* without an account
C24_Witness ==
    \E p \in Procs :
        /\ BehindUserOrGuest(resp[p])
        /\ ValidAccess(resp[p].req.authorization, resp[p].req.t)
        /\ resp[p].req.authorization.token.id = 2
        /\ resp[p].req.principal.is_guest
        /\ resp[p].req.principal.userId = NoUser

\* C25: for the account get_current_user has returned, require_official
\* lets create_alert pass exactly when the account's role is official and
\* its isOfficialVerified is set, and answers 403 in every other case.
C25_RequireOfficial ==
    \A p \in Procs :
        (resp[p].req.op = "create_alert" /\ resp[p].req.principal.status = 200)
            => LET user == users[resp[p].req.principal.userId]
               IN  /\ resp[p].status = 200
                         <=> user.role = "official" /\ user.isOfficialVerified
                   /\ resp[p].status # 200 => resp[p].status = 403

\* the official still waiting for approval was answered 403
C25_Witness ==
    \E p \in Procs :
        /\ resp[p].req.op = "create_alert" /\ resp[p].req.principal.status = 200
        /\ users[resp[p].req.principal.userId].role = "official"
        /\ ~users[resp[p].req.principal.userId].isOfficialVerified
        /\ resp[p].status = 403

(***************************************************************************)
(* Properties of the mail collaborator (SpecMail).                         *)
(***************************************************************************)
\* C26: whether the mail goes out or the collaborator fails, the step of
\* /register, /verify/resend and /verify that sends it answers 200 with the
\* same message and leaves the same account state: /register's what its
\* write left, /verify/resend's the new token, /verify's the verified
\* account without token.
C26_MailFailureChangesNothing ==
    [][\A p \in Procs :
         /\ (pc[p] = "reg_reload" /\ pc'[p] # pc[p])
                => /\ resp'[p].status = 200
                   /\ resp'[p].detail
                         = IF loc[p].updated
                           THEN "Registration updated successfully. Please check your email for verification."
                           ELSE "Registration successful. Please check your email for verification."
                   /\ resp'[p].userId = loc[p].id
                   /\ resp'[p].accessToken = NoToken
                   /\ users' = users
         /\ (pc[p] = "resend_update" /\ pc'[p] # pc[p])
                => /\ resp'[p].status = 200
                   /\ resp'[p].detail = "Verification email sent successfully"
                   /\ users'[loc[p].id].verificationToken = loc[p].vt.token
                   /\ \A id \in UserIds \ {loc[p].id} : users'[id] = users[id]
         /\ (pc[p] = "verify_update" /\ pc'[p] # pc[p])
                => /\ resp'[p].status = 200
                   /\ resp'[p].detail = "Account verified successfully"
                   /\ users'[loc[p].id].isVerified
                   /\ users'[loc[p].id].verificationToken = NoSecret
                   /\ \A id \in UserIds \ {loc[p].id} : users'[id] = users[id]]_vars

\* the mail of a registration and the mail of a verification both failed,
\* and both requests were answered 200
C26_Witness ==
    \E p, q \in Procs :
        /\ IsRegister(resp[p]) /\ resp[p].status = 200 /\ ~resp[p].req.mailed
        /\ IsVerify(resp[q]) /\ resp[q].status = 200 /\ ~resp[q].req.mailed
        /\ users[resp[q].req.userId].isVerified

(***************************************************************************)
(* The first session of a new account (SpecMail): register, a verification *)
(* with a wrong token, the verification with the stored token, login.      *)
(***************************************************************************)
\* the step of register that inserts the document, and its answer
RegisterCreatesUnverified(p) ==
    /\ (pc[p] = "reg_insert" /\ pc'[p] = "reg_reload")
           => /\ Len(users') = Len(users) + 1
              /\ SubSeq(users', 1, Len(users)) = users
              /\ users'[Len(users')].email = lower(loc[p].req.email)
              /\ ~users'[Len(users')].isVerified
              /\ users'[Len(users')].refreshTokens = <<>>
              /\ users'[Len(users')].lastLogin = NoTime
    /\ (pc[p] = "reg_reload" /\ pc'[p] = "idle" /\ resp'[p].status = 200)
           => /\ resp'[p].accessToken = NoToken
              /\ resp'[p].cookie = NoToken
              /\ users' = users

\* a verification with another token than the stored one
WrongTokenVerifyFails(p) ==
    (/\ pc[p] = "verify_find" /\ pc'[p] # "verify_find"
     /\ loc[p].req.userId \in UserIds
     /\ users[loc[p].req.userId].verificationToken # loc[p].req.token)
        => /\ pc'[p] = "idle"
           /\ resp'[p].status = 400
           /\ resp'[p].detail = "Invalid or expired verification token"
           /\ users' = users

\* the verification with the stored token, before its expiry
RightTokenVerifySucceeds(p) ==
    /\ (/\ pc[p] = "verify_find" /\ pc'[p] # "verify_find"
        /\ loc[p].req.userId \in UserIds
        /\ users[loc[p].req.userId].verificationToken = loc[p].req.token
        /\ ~(users[loc[p].req.userId].verificationTokenExpires < now))
           => /\ pc'[p] = "verify_update"
              /\ loc'[p].id = loc[p].req.userId
    /\ (pc[p] = "verify_update" /\ pc'[p] = "idle")
           => /\ users'[loc[p].id].isVerified
              /\ resp'[p].status = 200
              /\ resp'[p].detail = "Account verified successfully"

\* the login into a verified account of a citizen with its password
LoginOpensSession(p) ==
    /\ (pc[p] = "login_find" /\ pc'[p] # "login_find")
           => LET cv == validate_credential(loc[p].req.credential)
              IN  \A id \in UserIds :
                      (/\ cv.isValid /\ cv.type = "email" /\ users[id].email = cv.value
                       /\ verify_password(loc[p].req.password, users[id].password)
                       /\ users[id].isVerified
                       /\ users[id].role = "citizen")
                          => pc'[p] = "login_update" /\ loc'[p].id = id
    /\ (pc[p] = "login_update" /\ pc'[p] = "idle")
           => /\ resp'[p].status = 200
              /\ resp'[p].accessToken # NoToken
              /\ resp'[p].cookie # NoToken
              /\ resp'[p].accessToken # resp'[p].cookie
              /\ Len(users[loc[p].id].refreshTokens) < REFRESH_SLICE
                     => /\ Len(users'[loc[p].id].refreshTokens)
                               = Len(users[loc[p].id].refreshTokens) + 1
                        /\ SubSeq(users'[loc[p].id].refreshTokens, 1,
                                  Len(users[loc[p].id].refreshTokens))
                               = users[loc[p].id].refreshTokens
                        /\ users'[loc[p].id].refreshTokens[Len(users'[loc[p].id].refreshTokens)].token
                               = resp'[p].cookie
              /\ users'[loc[p].id].lastLogin # NoTime
              /\ users'[loc[p].id].lastLogin = now

\* C27: in the sequence register (new e-mail address), verification with a
\* wrong token, verification with the issued token, login with the
\* registered password: register creates an unverified account with an
\* empty refresh-token list and returns an empty access token; the
\* verification with the wrong token fails and leaves the account
\* unverified; the one with the issued token succeeds; login returns an
\* access token and a refresh token, appends the refresh token to the
\* account's list and sets lastLogin.
C27_FirstSession ==
    [][\A p \in Procs :
           /\ RegisterCreatesUnverified(p)
           /\ WrongTokenVerifyFails(p)
           /\ RightTokenVerifySucceeds(p)
           /\ LoginOpensSession(p)]_vars

\* c@x.co was registered as the third account, a verification of it with a
\* wrong token was refused, it is verified, and the login with the
\* registered password opened its first session
C27_Witness ==
    \E p, q \in Procs :
        /\ Len(users) = 3
        /\ users[3].email = Text_c_x_co
        /\ users[3].isVerified
        /\ resp[p].req.op = "verify" /\ resp[p].req.userId = 3
        /\ resp[p].status = 400
        /\ IsLogin(resp[q]) /\ resp[q].status = 200
        /\ resp[q].req.credential = Text_c_x_co
        /\ resp[q].req.password = Password2
        /\ resp[q].accessToken # NoToken
        /\ users[3].refreshTokens = <<[token |-> resp[q].cookie, createdAt |-> now]>>
        /\ users[3].lastLogin = now

(***************************************************************************)
(* Properties of password hashing and of the credential validator          *)
(* (SpecCalls).                                                            *)
(***************************************************************************)
IsHash(r) == r.req.op = "hash_password"
IsVerifyPassword(r) == r.req.op = "verify_password"
IsValidate(r) == r.req.op = "validate_credential"
Extends(long, short) ==
    Len(long) >= Len(short) /\ SubSeq(long, 1, Len(short)) = short

Classified(c, r) ==
    IF validate_email(c)
    THEN r.isValid /\ r.type = "email" /\ r.value = lower(c)
    ELSE IF validate_phone(c)
    THEN /\ r.isValid /\ r.type = "phone"
         /\ r.value # <<>> /\ Head(r.value) = "+"
         /\ AllIn(r.value, 2, Len(r.value), Digits)
         /\ LET IsDigit(ch) == ch \in Digits
            IN  Tail(r.value) = SelectSeq(c, IsDigit)
    ELSE ~r.isValid

\* C30: validate_credential tries the email pattern before the phone
\* pattern, on the input without the whitespace around it: what matches the
\* email pattern is classified as email and returned lower-cased, what else
\* matches the phone pattern is classified as phone and returned as a "+"
\* followed by its digits only, and what matches neither is invalid.
C30_ValidateCredential ==
    \A p \in Procs :
        IsValidate(resp[p])
            => Classified(strip(resp[p].req.credential), resp[p].result)

\* an address in upper case with whitespace around it classified as email
\* and lower-cased, a phone number with formatting classified as phone
\* and normalised
C30_Witness ==
    \E p, q \in Procs :
        /\ IsValidate(resp[p]) /\ IsValidate(resp[q])
        /\ resp[p].req.credential = <<" ">> \o Text_A_x_co \o <<" ">>
        /\ resp[p].result = [isValid |-> TRUE, type |-> "email", value |-> Text_a_x_co]
        /\ resp[q].req.credential = Text_9_1
        /\ resp[q].result = [isValid |-> TRUE, type |-> "phone", value |-> <<"+">> \o Text_91]

\* C30 as it is stated: the patterns are those matched by the input itself
C30_AsStated ==
    \A p \in Procs :
        IsValidate(resp[p]) => Classified(resp[p].req.credential, resp[p].result)

(***************************************************************************)
(* Properties of the refresh-token list under concurrent requests.         *)
(***************************************************************************)
\* the write of login, seen from the list before it and the list after it
LoginPushesNewest(p) ==
    (pc[p] = "login_update" /\ pc'[p] = "idle")
        => LET before == users[loc[p].id].refreshTokens
               after == users'[loc[p].id].refreshTokens
               evicted == Len(before) + 1 - Len(after)
           IN  /\ resp'[p].status = 200
               /\ Len(after) = IF Len(before) < REFRESH_SLICE
                                THEN Len(before) + 1 ELSE REFRESH_SLICE
               /\ after[Len(after)] = [token |-> resp'[p].cookie, createdAt |-> loc[p].t]
               /\ \A i \in 1..(Len(after) - 1) : after[i] = before[i + evicted]
               /\ users'[loc[p].id].lastLogin = loc[p].t
               /\ loc[p].t <= now
               /\ \A id \in UserIds \ {loc[p].id} : users'[id] = users[id]

\* C31: a successful login appends the new refresh token as the newest
\* entry and keeps only the 5 newest entries in their order: from a full
\* list of 5 the oldest entry is evicted and the other 4 keep their
\* relative order; lastLogin is set to the time of the login.
C31_LoginKeepsFiveNewest ==
    [][\A p \in Procs : LoginPushesNewest(p)]_vars

\* a login answered with its refresh token in the last of 5 places, the
\* oldest of the seeded sessions evicted and the other three in order
C31_Witness ==
    \E p \in Procs :
        /\ IsLogin(resp[p]) /\ resp[p].status = 200
        /\ Len(users[1].refreshTokens) = REFRESH_SLICE
        /\ users[1].refreshTokens[REFRESH_SLICE].token = resp[p].cookie
        /\ \A i \in 1..(EarlierLogins - 1) : users[1].refreshTokens[i] = SessionAt(i + 1)
        /\ users[1].lastLogin = users[1].refreshTokens[REFRESH_SLICE].createdAt

\* process q takes a step that reads or writes the refresh-token list of
\* account id: the find_one of refresh_token, whose result the membership
\* check goes by, or one of the updates of refresh_token, logout and login
ListStep(q, id) ==
    /\ pc'[q] # pc[q]
    /\ \/ /\ pc[q] \in {"refresh_find", "logout_pull"}
          /\ loc[q].req.cookie # NoToken
          /\ verify_token(loc[q].req.cookie, "refresh", now).ok
          /\ loc[q].req.cookie.id = id
       \/ /\ pc[q] \in {"refresh_pull", "refresh_push", "login_update"}
          /\ loc[q].id = id

\* process p is between the two updates of refresh_token: the presented
\* token is out of the list, the replacement is not in it
BetweenPullAndPush(p) ==
    /\ pc[p] = "refresh_push"
    /\ ~HasToken(users[loc[p].id], loc[p].req.cookie)
    /\ ~HasToken(users[loc[p].id], loc[p].tokens.refreshToken)

\* C32: refresh_token replaces the presented token by the new one as one
\* transaction: no other request on the same account (login, logout,
\* another refresh) reads or writes the list while the presented token is
\* removed and the replacement is not yet appended.
C32_RefreshIsOneTransaction ==
    [][\A p, q \in Procs :
           (p # q /\ BetweenPullAndPush(p)) => ~ListStep(q, loc[p].id)]_vars

(***************************************************************************)
(* Properties of concurrent requests on one account.                       *)
(***************************************************************************)
\* C33: a reset token is single-use: of the reset_password requests that
\* present one reset token, at most one succeeds, also when two of them
\* with different new passwords interleave their read and their write.
C33_ResetTokenUsedOnce ==
    \A p, q \in Procs :
        (/\ p # q
         /\ IsReset(resp[p]) /\ IsReset(resp[q])
         /\ resp[p].req.token = resp[q].req.token)
            => ~(resp[p].status = 200 /\ resp[q].status = 200)

\* C34: register never changes the password, the e-mail address or the
\* role of a verified account, also when it read the account while it was
\* unverified and writes after verify_account has verified it.
C34_RegisterLeavesVerifiedAlone ==
    [][\A p \in Procs :
           (pc[p] \in {"reg_find", "reg_update", "reg_insert", "reg_reload"}
                /\ pc'[p] # pc[p])
              => \A id \in UserIds :
                     users[id].isVerified
                        => /\ users'[id].password = users[id].password
                           /\ users'[id].email = users[id].email
                           /\ users'[id].role = users[id].role]_vars

\* C35: logout revokes the session: once a logout with refresh token t has
\* been answered, no refresh request presenting t, in progress at that
\* moment or started later, adds a refresh token to the account's list.
C35_LogoutRevokesSession ==
    [][\A p, q \in Procs :
           (/\ p # q
            /\ resp[q].req.op = "logout" /\ resp[q].status = 200
            /\ ValidCookie(resp[q].req.cookie)
            /\ pc[p] = "refresh_push" /\ pc'[p] # pc[p]
            /\ loc[p].req.cookie = resp[q].req.cookie)
              => users'[loc[p].id].refreshTokens = users[loc[p].id].refreshTokens]_vars

\* C36: every refresh token issued by login or refresh_token differs from
\* every refresh token in the account's list at the moment it is appended,
\* also when two tokens are issued for the account within one second, and
\* a refresh never hands the presented token back as its replacement.
C36_RefreshTokensDistinct ==
    [][\A p \in Procs :
           (pc[p] \in {"login_update", "refresh_push"} /\ pc'[p] # pc[p])
              => /\ ~HasToken(users[loc[p].id], loc[p].tokens.refreshToken)
                 /\ pc[p] = "refresh_push"
                        => loc[p].tokens.refreshToken # loc[p].req.cookie]_vars

C38_ResetKeepsSessions ==
    [][\A p \in Procs :
           /\ (pc[p] = "reset_update" /\ pc'[p] # pc[p])
                 => /\ resp'[p].status = 200
                    /\ users'[loc[p].id].refreshTokens = users[loc[p].id].refreshTokens
                    /\ \A id \in UserIds \ {loc[p].id} : users'[id] = users[id]
           /\ (/\ pc[p] = "refresh_find" /\ pc'[p] # pc[p]
               /\ \E q \in Procs : IsReset(resp[q]) /\ resp[q].status = 200
               /\ ValidCookie(loc[p].req.cookie)
               /\ HasToken(users[loc[p].req.cookie.id], loc[p].req.cookie))
                 => pc'[p] = "refresh_pull"
           /\ (pc[p] = "refresh_push" /\ pc'[p] # pc[p])
                 => /\ resp'[p].status = 200
                    /\ resp'[p].accessToken # NoToken]_vars

\* the password was reset, the seeded session of second 1 was exchanged,
\* and the other seeded sessions are in the list
C38_Witness ==
    \E p, q \in Procs :
        /\ IsReset(resp[q]) /\ resp[q].status = 200
        /\ verify_password(Password2, users[1].password)
        /\ IsRefresh(resp[p]) /\ resp[p].status = 200
        /\ resp[p].req.cookie = SessionAt(1).token
        /\ ~resp[p].req.replay
        /\ \A t \in 2..(EarlierLogins - 1) : HasToken(users[1], SessionAt(t).token)

(***************************************************************************)
(* Properties of register and login on accounts that are not usable yet.   *)
(***************************************************************************)
\* the unverified accounts other than the owner of the e-mail address that
\* hold the phone number of the registration p is serving
PhoneHolders(p) ==
    {b \in UserIds \ {loc[p].req.owner} :
        /\ loc[p].req.phone # NoText
        /\ users[b].phone = normalize_phone(loc[p].req.phone)
        /\ ~users[b].isVerified}

\* C39: a registration whose e-mail address is that of a verified account A
\* and whose phone number is that of another, unverified account B always
\* fails with 400 "User already exists with this email or phone" and changes
\* neither A nor B, whichever of the two the lookup returned.
C39_ConflictOnEmailAndPhone ==
    [][\A p \in Procs :
        /\ (/\ pc[p] = "reg_find" /\ pc'[p] = "idle"
            /\ resp'[p].req.ownerVerified
            /\ \E b \in UserIds \ {resp'[p].req.owner} :
                   /\ resp'[p].req.phone # NoText
                   /\ users[b].phone = normalize_phone(resp'[p].req.phone)
                   /\ ~users[b].isVerified)
              => /\ users' = users
                 /\ resp'[p].status = 400
                 /\ resp'[p].detail = "User already exists with this email or phone"
        /\ (/\ pc[p] \in {"reg_update", "reg_insert", "reg_reload"}
            /\ pc'[p] # pc[p]
            /\ loc[p].req.ownerVerified
            /\ PhoneHolders(p) # {})
              => /\ users'[loc[p].req.owner] = users[loc[p].req.owner]
                 /\ \A b \in PhoneHolders(p) : users'[b] = users[b]
                 /\ pc'[p] = "idle"
                       => /\ resp'[p].status = 400
                          /\ resp'[p].detail = "User already exists with this email or phone"]_vars

\* C40: login checks the password before the verification and approval
\* flags: a login whose password does not verify against the account found
\* is answered 401 "Invalid credentials", never with one of the 403
\* responses, and carries no account id, no user and no token, so that the
\* id is disclosed only to a caller who sent the right password.
C40_PasswordBeforeFlags ==
    \A p \in Procs :
        (/\ IsLogin(resp[p])
         /\ resp[p].req.found \in UserIds
         /\ ~resp[p].req.passwordOk)
            => /\ resp[p].status = 401
               /\ resp[p].detail = "Invalid credentials"
               /\ resp[p].userId = NoUser
               /\ resp[p].user = NoUserView
               /\ resp[p].accessToken = NoToken
               /\ resp[p].cookie = NoToken

\* a login with a wrong password into an unverified account and one into
\* an unapproved official's account, both answered 401
C40_Witness ==
    \E p, q \in Procs :
        /\ p # q
        /\ IsLogin(resp[p]) /\ IsLogin(resp[q])
        /\ resp[p].req.found \in UserIds /\ resp[q].req.found \in UserIds
        /\ ~resp[p].req.passwordOk /\ ~resp[q].req.passwordOk
        /\ resp[p].status = 401 /\ resp[q].status = 401
        /\ resp[p].req.password # resp[q].req.password
        /\ users[resp[q].req.found].isVerified
        /\ users[resp[q].req.found].role = "official"
        /\ ~users[resp[q].req.found].isOfficialVerified

====
